---------------------------- MODULE Spec2Model ----------------------------
(***************************************************************************)
(* Model of tools/hcp-node-autoscaling (main.go): the audit command, which *)
(* scans the management cluster and classifies every HostedCluster, and    *)
(* the migrate command, which patches the ManifestWork of every cluster    *)
(* that is ready for migration and polls the management cluster until the  *)
(* annotations have synced.                                                *)
(***************************************************************************)
EXTENDS Integers, Sequences, FiniteSets, TLC

(***************************************************************************)
(* Bounds of the model.                                                    *)
(***************************************************************************)
\* longest manifest list of a ManifestWork in the patch specification
MaxManifests == 2
\* seconds the clock advances in one step where waitForSync is examined alone
FineStep == 5
\* longest time, in seconds, a Get of the management cluster takes
MaxFetch == 20
\* most calls of patchManifestWork over the repeated runs of a command
MaxPatches == 2

(***************************************************************************)
(* Program constants.                                                      *)
(***************************************************************************)
\* pollInterval = 15 * time.Second, in seconds
pollInterval == 15
\* timeout = 5 * time.Minute, in seconds
timeout == 300

KeyOverride == "hypershift.openshift.io/cluster-size-override"
KeyTopology == "hypershift.openshift.io/topology"
KeyAutoScaling == "hypershift.openshift.io/resource-based-cp-auto-scaling"
KeyOther == "other.annotation"
KeyClusterID == "api.openshift.com/id"
KeySize == "hypershift.openshift.io/hosted-cluster-size"

ValTopology == "dedicated-request-serving-components"
ValTrue == "true"

NeedsRemoval == "needs-removal"
ReadyForMigration == "ready-for-migration"
AlreadyConfigured == "already-configured"

(***************************************************************************)
(* Go maps of strings.  A map is nil or a finite function; reading a nil   *)
(* map behaves as reading an empty one, and a lookup yields the value (the *)
(* zero value "" when the key is missing) and the comma-ok flag.           *)
(***************************************************************************)
EmptyKV == [k \in {} |-> ""]
NilMap == [nil |-> TRUE, kv |-> EmptyKV]
MkMap(f) == [nil |-> FALSE, kv |-> f]
MapGet(m, k) ==
  IF k \in DOMAIN m.kv THEN [v |-> m.kv[k], ok |-> TRUE]
                       ELSE [v |-> "", ok |-> FALSE]

\* every finite function from a subset of Keys to Vals
AllKV(Keys, Vals) == UNION {[D -> Vals] : D \in SUBSET Keys}
AllMaps(Keys, Vals) == {NilMap} \cup {MkMap(f) : f \in AllKV(Keys, Vals)}

(***************************************************************************)
(* categorizeCluster (main.go 357-373), on the record's annotations.       *)
(***************************************************************************)
\* categorizeCluster testing the value of the override annotation instead of
\* its presence
categorizeCluster_ValueTest(annotations) ==
  IF MapGet(annotations, KeyOverride).v # ""
  THEN NeedsRemoval
  ELSE LET topology == MapGet(annotations, KeyTopology)
           autoScaling == MapGet(annotations, KeyAutoScaling)
           hasCorrectTopology == topology.ok /\ topology.v = ValTopology
           hasCorrectAutoScaling == autoScaling.ok /\ autoScaling.v = ValTrue
       IN IF hasCorrectTopology /\ hasCorrectAutoScaling
          THEN AlreadyConfigured
          ELSE ReadyForMigration

\* categorizeCluster content with either of the two annotations
categorizeCluster_EitherAnnotation(annotations) ==
  IF MapGet(annotations, KeyOverride).ok
  THEN NeedsRemoval
  ELSE LET topology == MapGet(annotations, KeyTopology)
           autoScaling == MapGet(annotations, KeyAutoScaling)
           hasCorrectTopology == topology.ok /\ topology.v = ValTopology
           hasCorrectAutoScaling == autoScaling.ok /\ autoScaling.v = ValTrue
       IN IF hasCorrectTopology \/ hasCorrectAutoScaling
          THEN AlreadyConfigured
          ELSE ReadyForMigration

categorizeCluster(annotations) ==
  IF MapGet(annotations, KeyOverride).ok
  THEN NeedsRemoval
  ELSE LET topology == MapGet(annotations, KeyTopology)
           autoScaling == MapGet(annotations, KeyAutoScaling)
           hasCorrectTopology == topology.ok /\ topology.v = ValTopology
           hasCorrectAutoScaling == autoScaling.ok /\ autoScaling.v = ValTrue
       IN IF hasCorrectTopology /\ hasCorrectAutoScaling
          THEN AlreadyConfigured
          ELSE ReadyForMigration

(***************************************************************************)
(* hasRequiredAnnotations (main.go 852-863).                               *)
(***************************************************************************)
\* hasRequiredAnnotations testing the presence of the two keys only
hasRequiredAnnotations_PresenceOnly(annotations) ==
  IF annotations.nil
  THEN FALSE
  ELSE MapGet(annotations, KeyTopology).ok /\ MapGet(annotations, KeyAutoScaling).ok

\* hasRequiredAnnotations accepting either of the two values
hasRequiredAnnotations_EitherValue(annotations) ==
  IF annotations.nil
  THEN FALSE
  ELSE LET topology == MapGet(annotations, KeyTopology)
           autoScaling == MapGet(annotations, KeyAutoScaling)
       IN \/ topology.ok /\ topology.v = ValTopology
          \/ autoScaling.ok /\ autoScaling.v = ValTrue

hasRequiredAnnotations(annotations) ==
  IF annotations.nil
  THEN FALSE
  ELSE LET topology == MapGet(annotations, KeyTopology)
           autoScaling == MapGet(annotations, KeyAutoScaling)
       IN topology.ok /\ topology.v = ValTopology
          /\ autoScaling.ok /\ autoScaling.v = ValTrue

(***************************************************************************)
(* Errors.  An error is the sequence of the fragments of its message: the  *)
(* format string followed by its arguments; the nil error is <<>>.         *)
(***************************************************************************)
NoErr == <<>>
Errorf(format, args) == <<format>> \o args

ErrNotFoundInManifests == Errorf("HostedCluster not found in ManifestWork manifests", <<>>)
\* the cancellation case returning the message of a timeout
ErrContextCancelled_TimeoutMessage == Errorf("timeout waiting for sync after %v", <<"5m0s">>)
ErrContextCancelled == Errorf("context cancelled", <<>>)
ErrTimeoutFetch == Errorf("timeout waiting for sync after %v", <<"5m0s">>)
ErrTimeoutNotSynced == Errorf("timeout: annotations did not sync after %v", <<"5m0s">>)
\* the error of a failing call of the Kubernetes client
ErrClient == Errorf("client error", <<>>)

(***************************************************************************)
(* Manifests.  Manifest.Raw is nil, bytes that do not unmarshal into a     *)
(* JSON object, or the bytes of a JSON object.  The bytes of an object are *)
(* its content plus the flag canon: whether they are laid out as           *)
(* json.Marshal lays out a map (sorted keys, no insignificant whitespace). *)
(* The fields the patch reads are kind and metadata.annotations; rest      *)
(* stands for the other fields of the level it is on.                      *)
(***************************************************************************)
NilRaw == [t |-> "nil"]
BadRaw == [t |-> "bad"]
JsonRaw(canon, obj) == [t |-> "json", canon |-> canon, obj |-> obj]

JAbsent == [t |-> "absent"]
\* a JSON value of a type the code's type assertion rejects
JOther == [t |-> "other"]
JStr(s) == [t |-> "str", s |-> s]
JMeta(rest, annotations) == [t |-> "obj", rest |-> rest, annotations |-> annotations]
JAnn(kv) == [t |-> "obj", kv |-> kv]
JObj(kind, metadata, rest) == [kind |-> kind, metadata |-> metadata, rest |-> rest]

\* json.Unmarshal(manifest.Raw, &manifestData), main.go 748-751
Unmarshal(raw) ==
  IF raw.t = "json" THEN [err |-> FALSE, data |-> raw.obj]
                    ELSE [err |-> TRUE, data |-> JObj(JAbsent, JAbsent, "")]

\* json.Marshal(manifestData), main.go 773: the canonical bytes of the object
Marshal(data) == JsonRaw(TRUE, data)

\* kind, _ := manifestData["kind"].(string), main.go 753
KindOf(data) == IF data.kind.t = "str" THEN data.kind.s ELSE ""

MapSet(f, k, v) == [x \in (DOMAIN f) \cup {k} |-> IF x = k THEN v ELSE f[x]]

\* SetAnnotations writing a fresh annotations map that holds the two keys only
SetAnnotations_FreshMap(data) ==
  LET metadata == IF data.metadata.t = "obj"
                  THEN data.metadata
                  ELSE JMeta("", JAbsent)
      patched == MapSet(MapSet(EmptyKV, KeyTopology, ValTopology),
                        KeyAutoScaling, ValTrue)
  IN [data EXCEPT !.metadata = JMeta(metadata.rest, JAnn(patched))]

\* main.go 758-771: ensure metadata and metadata.annotations are objects and
\* set the two annotations
SetAnnotations(data) ==
  LET metadata == IF data.metadata.t = "obj"
                  THEN data.metadata
                  ELSE JMeta("", JAbsent)
      annotations == IF metadata.annotations.t = "obj"
                     THEN metadata.annotations.kv
                     ELSE EmptyKV
      patched == MapSet(MapSet(annotations, KeyTopology, ValTopology),
                        KeyAutoScaling, ValTrue)
  IN [data EXCEPT !.metadata = JMeta(metadata.rest, JAnn(patched))]

\* a loop without the break of main.go 780: every HostedCluster element is
\* patched
RECURSIVE PatchLoop_NoBreak(_, _)
PatchLoop_NoBreak(manifests, i) ==
  IF i > Len(manifests)
  THEN [modified |-> FALSE, manifests |-> manifests]
  ELSE IF manifests[i].t = "nil"
  THEN PatchLoop_NoBreak(manifests, i + 1)
  ELSE LET u == Unmarshal(manifests[i])
       IN IF u.err
          THEN PatchLoop_NoBreak(manifests, i + 1)
          ELSE IF KindOf(u.data) # "HostedCluster"
          THEN PatchLoop_NoBreak(manifests, i + 1)
          ELSE [modified |-> TRUE,
                manifests |->
                  PatchLoop_NoBreak([manifests EXCEPT
                                       ![i] = Marshal(SetAnnotations(u.data))],
                                    i + 1).manifests]

\* a loop that appends the patched element instead of replacing it in place
RECURSIVE PatchLoop_AppendPatched(_, _)
PatchLoop_AppendPatched(manifests, i) ==
  IF i > Len(manifests)
  THEN [modified |-> FALSE, manifests |-> manifests]
  ELSE IF manifests[i].t = "nil"
  THEN PatchLoop_AppendPatched(manifests, i + 1)
  ELSE LET u == Unmarshal(manifests[i])
       IN IF u.err
          THEN PatchLoop_AppendPatched(manifests, i + 1)
          ELSE IF KindOf(u.data) # "HostedCluster"
          THEN PatchLoop_AppendPatched(manifests, i + 1)
          ELSE [modified |-> TRUE,
                manifests |-> Append(manifests, Marshal(SetAnnotations(u.data)))]

\* the loop of main.go 742-781 from element i on
RECURSIVE PatchLoop(_, _)
PatchLoop(manifests, i) ==
  IF i > Len(manifests)
  THEN [modified |-> FALSE, manifests |-> manifests]
  ELSE IF manifests[i].t = "nil"
  THEN PatchLoop(manifests, i + 1)
  ELSE LET u == Unmarshal(manifests[i])
       IN IF u.err
          THEN PatchLoop(manifests, i + 1)
          ELSE IF KindOf(u.data) # "HostedCluster"
          THEN PatchLoop(manifests, i + 1)
          ELSE [modified |-> TRUE,
                manifests |-> [manifests EXCEPT ![i] = Marshal(SetAnnotations(u.data))]]

(***************************************************************************)
(* patchManifestWork (main.go 728-792) on the service cluster's store, a   *)
(* function from the names of its ManifestWorks to their manifest lists.   *)
(* getOK and updateOK are the outcomes of the two client calls.  The       *)
(* result is the returned error, the store afterwards, whether Get         *)
(* returned the ManifestWork and whether Update was called.                *)
(***************************************************************************)
\* patchManifestWork without the check of modified (main.go 783-785)
patchManifestWork_NoModifiedCheck(store, clusterID, getOK, updateOK) ==
  IF ~getOK \/ clusterID \notin DOMAIN store
  THEN [err |-> Errorf("failed to get ManifestWork %s/%s: %v", <<clusterID>> \o ErrClient),
        store |-> store, got |-> FALSE, updateCalled |-> FALSE]
  ELSE LET p == PatchLoop(store[clusterID], 1)
       IN IF ~updateOK
          THEN [err |-> Errorf("failed to update ManifestWork: %v", ErrClient),
                store |-> store, got |-> TRUE, updateCalled |-> TRUE]
          ELSE [err |-> NoErr,
                store |-> [store EXCEPT ![clusterID] = p.manifests],
                got |-> TRUE, updateCalled |-> TRUE]

\* patchManifestWork writing the patched manifests of every ManifestWork
patchManifestWork_UpdateAll(store, clusterID, getOK, updateOK) ==
  IF ~getOK \/ clusterID \notin DOMAIN store
  THEN [err |-> Errorf("failed to get ManifestWork %s/%s: %v", <<clusterID>> \o ErrClient),
        store |-> store, got |-> FALSE, updateCalled |-> FALSE]
  ELSE LET p == PatchLoop(store[clusterID], 1)
       IN IF ~p.modified
          THEN [err |-> ErrNotFoundInManifests, store |-> store, got |-> TRUE,
                updateCalled |-> FALSE]
          ELSE IF ~updateOK
          THEN [err |-> Errorf("failed to update ManifestWork: %v", ErrClient),
                store |-> store, got |-> TRUE, updateCalled |-> TRUE]
          ELSE [err |-> NoErr,
                store |-> [id \in DOMAIN store |-> PatchLoop(store[id], 1).manifests],
                got |-> TRUE, updateCalled |-> TRUE]

patchManifestWork(store, clusterID, getOK, updateOK) ==
  IF ~getOK \/ clusterID \notin DOMAIN store
  THEN [err |-> Errorf("failed to get ManifestWork %s/%s: %v", <<clusterID>> \o ErrClient),
        store |-> store, got |-> FALSE, updateCalled |-> FALSE]
  ELSE LET p == PatchLoop(store[clusterID], 1)
       IN IF ~p.modified
          THEN [err |-> ErrNotFoundInManifests, store |-> store, got |-> TRUE,
                updateCalled |-> FALSE]
          ELSE IF ~updateOK
          THEN [err |-> Errorf("failed to update ManifestWork: %v", ErrClient),
                store |-> store, got |-> TRUE, updateCalled |-> TRUE]
          ELSE [err |-> NoErr,
                store |-> [store EXCEPT ![clusterID] = p.manifests],
                got |-> TRUE, updateCalled |-> TRUE]

(***************************************************************************)
(* Namespace names are sequences of characters, so that the pattern of     *)
(* listOcmNamespaces is matched character by character.                    *)
(***************************************************************************)
Digits == {"0", "1", "2", "3", "4", "5", "6", "7", "8", "9"}
Lower == {"a", "b", "c", "d", "e", "f", "g", "h", "i", "j", "k", "l", "m",
          "n", "o", "p", "q", "r", "s", "t", "u", "v", "w", "x", "y", "z"}
Upper == {"A", "B", "C", "D", "E", "F", "G", "H", "I", "J", "K", "L", "M",
          "N", "O", "P", "Q", "R", "S", "T", "U", "V", "W", "X", "Y", "Z"}
AlNum == Lower \cup Upper \cup Digits

StrOcmDash == <<"o", "c", "m", "-">>
StrProduction == <<"p", "r", "o", "d", "u", "c", "t", "i", "o", "n">>
StrStaging == <<"s", "t", "a", "g", "i", "n", "g">>

\* the pattern without its closing anchor: `^ocm-(production|staging)-[a-zA-Z0-9]+`
ocmNamespacePattern_Unanchored(name) ==
  \E env \in {StrProduction, StrStaging} :
    LET prefix == StrOcmDash \o env \o <<"-">>
    IN /\ Len(name) > Len(prefix)
       /\ SubSeq(name, 1, Len(prefix)) = prefix
       /\ name[Len(prefix) + 1] \in AlNum

\* regexp `^ocm-(production|staging)-[a-zA-Z0-9]+$`, main.go 302
ocmNamespacePattern(name) ==
  \E env \in {StrProduction, StrStaging} :
    LET prefix == StrOcmDash \o env \o <<"-">>
    IN /\ Len(name) > Len(prefix)
       /\ SubSeq(name, 1, Len(prefix)) = prefix
       /\ \A i \in (Len(prefix) + 1)..Len(name) : name[i] \in AlNum

RECURSIVE FilterNamespaces(_)
\* the loop of listOcmNamespaces, main.go 304-308, on the listed namespaces
FilterNamespaces(items) ==
  IF items = <<>>
  THEN <<>>
  ELSE IF ocmNamespacePattern(Head(items).Name)
  THEN <<Head(items).Name>> \o FilterNamespaces(Tail(items))
  ELSE FilterNamespaces(Tail(items))

(***************************************************************************)
(* Cluster ids are taken from KnownIDs, listed in the order of Go's < on   *)
(* strings, which displayCandidates sorts by.                              *)
(***************************************************************************)
KnownIDs == <<"", "c1", "c2", "c9">>
StrLess(a, b) ==
  \E i, j \in 1..Len(KnownIDs) : KnownIDs[i] = a /\ KnownIDs[j] = b /\ i < j

RECURSIVE InsertByClusterID(_, _)
InsertByClusterID(sorted, c) ==
  IF sorted = <<>>
  THEN <<c>>
  ELSE IF StrLess(c.ClusterID, Head(sorted).ClusterID)
  THEN <<c>> \o sorted
  ELSE <<Head(sorted)>> \o InsertByClusterID(Tail(sorted), c)

RECURSIVE SortByClusterID(_)
\* sort.Slice(candidates, ClusterID <), main.go 872-874
SortByClusterID(cs) ==
  IF cs = <<>> THEN <<>>
  ELSE InsertByClusterID(SortByClusterID(SubSeq(cs, 1, Len(cs) - 1)), cs[Len(cs)])

\* %d of a small number
Itoa(n) == <<"0", "1", "2", "3", "4", "5", "6", "7", "8", "9">>[n + 1]

(***************************************************************************)
(* getHostedClusterInNamespace (main.go 337-354) and auditNamespace        *)
(* (main.go 314-334) on the items the List call returned.                  *)
(***************************************************************************)
\* a lookup that takes the first record when the namespace holds several
getHostedClusterInNamespace_FirstOfMany(listOK, items) ==
  IF ~listOK
  THEN [err |-> ErrClient, hc |-> <<>>]
  ELSE IF Len(items) = 0
  THEN [err |-> Errorf("no HostedCluster found", <<>>), hc |-> <<>>]
  ELSE [err |-> NoErr, hc |-> items[1]]

getHostedClusterInNamespace(listOK, items) ==
  IF ~listOK
  THEN [err |-> ErrClient, hc |-> <<>>]
  ELSE IF Len(items) = 0
  THEN [err |-> Errorf("no HostedCluster found", <<>>), hc |-> <<>>]
  ELSE IF Len(items) > 1
  THEN [err |-> Errorf("found %d HostedClusters, expected 1", <<Itoa(Len(items))>>),
        hc |-> <<>>]
  ELSE [err |-> NoErr, hc |-> items[1]]

auditNamespace(listOK, items, namespace) ==
  LET r == getHostedClusterInNamespace(listOK, items)
  IN IF r.err # NoErr
     THEN [err |-> r.err, info |-> <<>>]
     ELSE [err |-> NoErr,
           info |-> [ClusterID |-> MapGet(r.hc.Labels, KeyClusterID).v,
                     ClusterName |-> r.hc.Name,
                     Namespace |-> namespace,
                     CurrentSize |-> MapGet(r.hc.Labels, KeySize).v,
                     Category |-> categorizeCluster(r.hc.Annotations),
                     Labels |-> r.hc.Labels,
                     Annotations |-> r.hc.Annotations]]

(***************************************************************************)
(* applyFilter (main.go 376-394).                                          *)
(***************************************************************************)
\* a filter that keeps the total of the unfiltered result
applyFilter_KeepTotal(filter, res) ==
  LET filtered == [MgmtClusterID |-> res.MgmtClusterID,
                   TotalScanned |-> res.TotalScanned,
                   NeedsLabelRemoval |-> <<>>,
                   ReadyForMigration |-> <<>>,
                   AlreadyConfigured |-> <<>>,
                   Errors |-> res.Errors]
  IN IF filter = NeedsRemoval
     THEN [filtered EXCEPT !.NeedsLabelRemoval = res.NeedsLabelRemoval]
     ELSE IF filter = ReadyForMigration
     THEN [filtered EXCEPT !.ReadyForMigration = res.ReadyForMigration]
     ELSE res

applyFilter(filter, res) ==
  LET filtered == [MgmtClusterID |-> res.MgmtClusterID,
                   TotalScanned |-> 0,
                   NeedsLabelRemoval |-> <<>>,
                   ReadyForMigration |-> <<>>,
                   AlreadyConfigured |-> <<>>,
                   Errors |-> res.Errors]
  IN IF filter = NeedsRemoval
     THEN [filtered EXCEPT !.NeedsLabelRemoval = res.NeedsLabelRemoval,
                           !.TotalScanned = Len(res.NeedsLabelRemoval)]
     ELSE IF filter = ReadyForMigration
     THEN [filtered EXCEPT !.ReadyForMigration = res.ReadyForMigration,
                           !.TotalScanned = Len(res.ReadyForMigration)]
     ELSE res

\* a switch whose first case falls through to the second
AddToBucket_FallThrough(res, info) ==
  IF info.Category = NeedsRemoval
  THEN [res EXCEPT !.NeedsLabelRemoval = Append(@, info),
                   !.ReadyForMigration = Append(@, info)]
  ELSE IF info.Category = ReadyForMigration
  THEN [res EXCEPT !.ReadyForMigration = Append(@, info)]
  ELSE IF info.Category = AlreadyConfigured
  THEN [res EXCEPT !.AlreadyConfigured = Append(@, info)]
  ELSE res

\* the switch of auditOpts.run, main.go 273-280
AddToBucket(res, info) ==
  IF info.Category = NeedsRemoval
  THEN [res EXCEPT !.NeedsLabelRemoval = Append(@, info)]
  ELSE IF info.Category = ReadyForMigration
  THEN [res EXCEPT !.ReadyForMigration = Append(@, info)]
  ELSE IF info.Category = AlreadyConfigured
  THEN [res EXCEPT !.AlreadyConfigured = Append(@, info)]
  ELSE res

\* a total that counts the namespaces of the error list as scanned
FinishAudit_CountErrors(filter, res) ==
  LET counted == [res EXCEPT !.TotalScanned = Len(res.NeedsLabelRemoval)
                                              + Len(res.ReadyForMigration)
                                              + Len(res.AlreadyConfigured)
                                              + Len(res.Errors)]
  IN [results |-> counted,
      output |-> IF filter # "" THEN applyFilter(filter, counted) ELSE counted]

\* main.go 283-291: the total, then the filter when --show-only is given
FinishAudit(filter, res) ==
  LET counted == [res EXCEPT !.TotalScanned = Len(res.NeedsLabelRemoval)
                                              + Len(res.ReadyForMigration)
                                              + Len(res.AlreadyConfigured)]
  IN [results |-> counted,
      output |-> IF filter # "" THEN applyFilter(filter, counted) ELSE counted]

\* a filter that keeps every record that is not yet configured
IsCandidate_NotConfigured(info) == info.Category # AlreadyConfigured

\* getCandidatesForMigration keeps the ready-for-migration records, main.go 672-674
IsCandidate(info) == info.Category = ReadyForMigration

(***************************************************************************)
(* migrateCluster (main.go 702-725): the result of one candidate from the  *)
(* error of patchManifestWork and, when the patch succeeded, the error of  *)
(* waitForSync.                                                            *)
(***************************************************************************)
TimeRFC3339 == "time.Now().Format(time.RFC3339)"

\* a test that takes only the not-found error for a failure of the patch
patchFailed_NotFoundOnly(err) == err = ErrNotFoundInManifests

\* if err := m.patchManifestWork(...); err != nil, main.go 708
patchFailed(err) == err # NoErr

\* migrateCluster stamping the result before the verification is examined
migrateCluster_StampBeforeVerify(info, patchErr, syncErr) ==
  IF patchFailed(patchErr)
  THEN [ClusterID |-> info.ClusterID, ClusterName |-> info.ClusterName,
        Status |-> "failed",
        Error |-> Errorf("failed to patch ManifestWork: %v", patchErr),
        VerifiedAt |-> ""]
  ELSE IF syncErr # NoErr
  THEN [ClusterID |-> info.ClusterID, ClusterName |-> info.ClusterName,
        Status |-> "failed",
        Error |-> Errorf("sync verification failed: %v", syncErr),
        VerifiedAt |-> TimeRFC3339]
  ELSE [ClusterID |-> info.ClusterID, ClusterName |-> info.ClusterName,
        Status |-> "success", Error |-> NoErr, VerifiedAt |-> TimeRFC3339]

migrateCluster(info, patchErr, syncErr) ==
  IF patchFailed(patchErr)
  THEN [ClusterID |-> info.ClusterID, ClusterName |-> info.ClusterName,
        Status |-> "failed",
        Error |-> Errorf("failed to patch ManifestWork: %v", patchErr),
        VerifiedAt |-> ""]
  ELSE IF syncErr # NoErr
  THEN [ClusterID |-> info.ClusterID, ClusterName |-> info.ClusterName,
        Status |-> "failed",
        Error |-> Errorf("sync verification failed: %v", syncErr),
        VerifiedAt |-> ""]
  ELSE [ClusterID |-> info.ClusterID, ClusterName |-> info.ClusterName,
        Status |-> "success", Error |-> NoErr, VerifiedAt |-> TimeRFC3339]

\* results = append(results, result), main.go 689
AppendResult(rs, result) == Append(rs, result)

(***************************************************************************)
(* One tick of waitForSync after the fetch has returned (main.go 815-834): *)
(* fetchOK is whether getHostedClusterFromMgmt returned no error, t the    *)
(* reading of time.Now() after the fetch.  done says whether waitForSync   *)
(* returns, err what it returns.                                           *)
(***************************************************************************)
\* a tick that examines the deadline before it evaluates the record
waitForSyncTick_DeadlineFirst(fetchOK, annotations, t, dl) ==
  IF t > dl
  THEN [done |-> TRUE, err |-> IF fetchOK THEN ErrTimeoutNotSynced ELSE ErrTimeoutFetch]
  ELSE IF fetchOK /\ hasRequiredAnnotations(annotations)
  THEN [done |-> TRUE, err |-> NoErr]
  ELSE [done |-> FALSE, err |-> NoErr]

\* a tick that does not examine the deadline after a failed fetch
waitForSyncTick_NoDeadlineOnError(fetchOK, annotations, t, dl) ==
  IF ~fetchOK
  THEN [done |-> FALSE, err |-> NoErr]
  ELSE IF hasRequiredAnnotations(annotations)
  THEN [done |-> TRUE, err |-> NoErr]
  ELSE IF t > dl THEN [done |-> TRUE, err |-> ErrTimeoutNotSynced]
                 ELSE [done |-> FALSE, err |-> NoErr]

\* a tick that never examines the deadline
waitForSyncTick_NoDeadline(fetchOK, annotations, t, dl) ==
  IF fetchOK /\ hasRequiredAnnotations(annotations)
  THEN [done |-> TRUE, err |-> NoErr]
  ELSE [done |-> FALSE, err |-> NoErr]

\* a tick that returns the error of a failed fetch
waitForSyncTick_ReturnFetchError(fetchOK, annotations, t, dl) ==
  IF ~fetchOK
  THEN [done |-> TRUE, err |-> ErrClient]
  ELSE IF hasRequiredAnnotations(annotations)
  THEN [done |-> TRUE, err |-> NoErr]
  ELSE IF t > dl THEN [done |-> TRUE, err |-> ErrTimeoutNotSynced]
                 ELSE [done |-> FALSE, err |-> NoErr]

waitForSyncTick(fetchOK, annotations, t, dl) ==
  IF ~fetchOK
  THEN IF t > dl THEN [done |-> TRUE, err |-> ErrTimeoutFetch]
                 ELSE [done |-> FALSE, err |-> NoErr]
  ELSE IF hasRequiredAnnotations(annotations)
  THEN [done |-> TRUE, err |-> NoErr]
  ELSE IF t > dl THEN [done |-> TRUE, err |-> ErrTimeoutNotSynced]
                 ELSE [done |-> FALSE, err |-> NoErr]

(***************************************************************************)
(* Setup.  auditOpts.run validates its flags and builds its client         *)
(* (main.go 193-246); migrateOpts.initialize does so for the migrate       *)
(* command (main.go 567-612).  keysOK says whether the cluster ids are     *)
(* valid, lateErr is the error (or none) of the steps that talk to OCM and *)
(* build the clients.                                                      *)
(***************************************************************************)
ValidFilters == {NeedsRemoval, ReadyForMigration}

LateSetupErrors ==
  {Errorf("failed to create OCM connection: %v", ErrClient),
   Errorf("failed to get cluster: %v", ErrClient),
   Errorf("cluster %s is not a management cluster", <<"mgmt">>),
   Errorf("failed to create management cluster client: %v", ErrClient)}

auditSetup(keysOK, filter, lateErr) ==
  IF ~keysOK
  THEN Errorf("invalid cluster key", <<>>)
  ELSE IF filter # "" /\ filter \notin ValidFilters
  THEN Errorf("invalid show-only filter '%s'. Valid options: needs-removal, ready-for-migration",
              <<filter>>)
  ELSE lateErr

initialize(keysOK, lateErr) ==
  IF ~keysOK
  THEN Errorf("invalid service cluster ID: %v", <<"invalid cluster key">>)
  ELSE lateErr

\* migrateOpts.run without the return of the dry run (main.go 555-558)
migrateAfterScan_IgnoreDryRun(cands, skip, dry) ==
  IF Len(cands) = 0
  THEN [pc |-> "done", candidates |-> cands]
  ELSE IF ~skip /\ ~dry
  THEN [pc |-> "confirm", candidates |-> SortByClusterID(cands)]
  ELSE [pc |-> "migrate", candidates |-> SortByClusterID(cands)]

\* migrateOpts.run after getCandidatesForMigration, main.go 541-559
migrateAfterScan(cands, skip, dry) ==
  IF Len(cands) = 0
  THEN [pc |-> "done", candidates |-> cands]
  ELSE IF ~skip /\ ~dry
  THEN [pc |-> "confirm", candidates |-> SortByClusterID(cands)]
  ELSE IF dry
  THEN [pc |-> "done", candidates |-> SortByClusterID(cands)]
  ELSE [pc |-> "migrate", candidates |-> SortByClusterID(cands)]

\* a loop that returns at the first failed result
migrateClustersNext_HaltOnFailure(result, i, n) ==
  IF result.Status = "failed" \/ i + 1 > n THEN "done" ELSE "migrate"

\* the loop of migrateClusters, main.go 684-698: where the run goes after
\* the i-th of n candidates gave result
migrateClustersNext(result, i, n) ==
  IF i + 1 > n THEN "done" ELSE "migrate"

(***************************************************************************)
(* State.                                                                  *)
(***************************************************************************)
VARIABLES
  cmd,               \* "audit" or "migrate"
  showOnly,          \* --show-only
  dryRun,            \* --dry-run
  skipConfirmation,  \* --skip-confirmation
  mgmt,              \* management cluster: the namespaces and their HostedClusters
  svc,               \* service cluster: ManifestWork name -> manifest list
  svc0,              \* the service cluster's store when the run began
  pc,                \* where the run is
  runErr,            \* the error run returned
  cancelled,         \* ctx.Done() is closed
  namespaces,        \* the namespaces listOcmNamespaces returned
  nsIdx,             \* the namespace the scan is at
  auditRes,          \* auditResults before the filter
  output,            \* auditResults handed to outputResults
  candidates,        \* the migrate command's candidates
  idx,               \* the candidate migrateClusters is at
  results,           \* the migrationResults
  now,               \* time.Now(), in seconds since waitForSync was entered
  deadline,          \* waitForSync's deadline
  nextTick,          \* when the ticker fires next
  tickPending,       \* a tick is waiting in ticker.C
  attempt,           \* waitForSync's attempt
  fetchStart,        \* when the fetch in flight was started
  clockStep,         \* seconds the clock advances in one step
  raced,             \* ctx.Done() was ready too when the last tick was taken
  lastFetch,         \* what the last fetch of this waitForSync returned
  scanLog,           \* the records the scan resolved, as it classified them
  patchLog,          \* the calls of patchManifestWork and what they returned
  syncCalls,         \* the candidates waitForSync was called for
  syncLog            \* the returns of waitForSync

optVars == <<cmd, showOnly, dryRun, skipConfirmation>>
scanVars == <<namespaces, nsIdx, auditRes, output>>
waitVars == <<now, deadline, nextTick, tickPending, attempt, fetchStart, raced, lastFetch>>
logVars == <<scanLog, patchLog, syncCalls, syncLog>>
vars == <<cmd, showOnly, dryRun, skipConfirmation, mgmt, svc, svc0, pc, runErr,
          cancelled, namespaces, nsIdx, auditRes, output, candidates, idx,
          results, now, deadline, nextTick, tickPending, attempt, fetchStart,
          raced, lastFetch, clockStep, scanLog, patchLog, syncCalls, syncLog>>

EmptyResults ==
  [MgmtClusterID |-> "mgmt", TotalScanned |-> 0, NeedsLabelRemoval |-> <<>>,
   ReadyForMigration |-> <<>>, AlreadyConfigured |-> <<>>, Errors |-> <<>>]

NoFetch ==
  [n |-> 0, ok |-> FALSE, ann |-> NilMap, startedLate |-> FALSE, late |-> FALSE]

\* the items of namespace ns in the management cluster
ItemsOf(store, ns) ==
  LET S == {i \in 1..Len(store) : store[i].Name = ns}
  IN IF S = {} THEN <<>> ELSE store[CHOOSE i \in S : TRUE].Items

\* mgmtClient.Get of getHostedClusterFromMgmt, main.go 840-849
getHostedClusterFromMgmt(store, getOK, namespace, name) ==
  LET items == ItemsOf(store, namespace)
      S == {i \in 1..Len(items) : items[i].Name = name}
  IN IF ~getOK \/ S = {}
     THEN [err |-> ErrClient, Annotations |-> NilMap]
     ELSE [err |-> NoErr, Annotations |-> items[CHOOSE i \in S : TRUE].Annotations]

(***************************************************************************)
(* The run of a command.  pc is "init" before the setup, "list" before     *)
(* listOcmNamespaces, "scan" in the loop over the namespaces, "confirm" at *)
(* the prompt, "migrate" before patchManifestWork of candidates[idx],      *)
(* "select" at the select of waitForSync, "fetch" while its Get is in      *)
(* flight, and "done" when run has returned.                               *)
(***************************************************************************)
\* a setup whose error is kept for the end of the run instead of returned
Initialize_ContinueOnError ==
  /\ pc = "init"
  /\ \E keysOK \in BOOLEAN, lateErr \in LateSetupErrors \cup {NoErr} :
       LET err == IF cmd = "audit"
                  THEN auditSetup(keysOK, showOnly, lateErr)
                  ELSE initialize(keysOK, lateErr)
       IN /\ pc' = "list"
          /\ runErr' = IF err = NoErr \/ cmd = "audit" THEN err
                       ELSE Errorf("initialization failed: %v", err)
  /\ UNCHANGED <<optVars, clockStep, mgmt, svc, svc0, cancelled, scanVars, candidates,
                 idx, results, waitVars, logVars>>

Initialize ==
  /\ pc = "init"
  /\ \E keysOK \in BOOLEAN, lateErr \in LateSetupErrors \cup {NoErr} :
       LET err == IF cmd = "audit"
                  THEN auditSetup(keysOK, showOnly, lateErr)
                  ELSE initialize(keysOK, lateErr)
       IN IF err # NoErr
          THEN /\ pc' = "done"
               /\ runErr' = IF cmd = "audit" THEN err
                            ELSE Errorf("initialization failed: %v", err)
          ELSE /\ pc' = "list"
               /\ runErr' = runErr
  /\ UNCHANGED <<optVars, clockStep, mgmt, svc, svc0, cancelled, scanVars, candidates,
                 idx, results, waitVars, logVars>>

\* the end of the scan: the audit command counts, filters and prints
\* (main.go 283-291), the migrate command goes on to the confirmation
ScanDone(res, cands) ==
  IF cmd = "audit"
  THEN /\ auditRes' = FinishAudit(showOnly, res).results
       /\ output' = FinishAudit(showOnly, res).output
       /\ pc' = "done"
       /\ UNCHANGED <<candidates, idx>>
  ELSE LET a == migrateAfterScan(cands, skipConfirmation, dryRun)
       IN /\ pc' = a.pc
          /\ candidates' = a.candidates
          /\ idx' = 1
          /\ UNCHANGED <<auditRes, output>>

\* listOcmNamespaces, main.go 295-311, called at 248 and 656
ListNamespaces ==
  /\ pc = "list"
  /\ \E listOK \in BOOLEAN :
       IF ~listOK
       THEN /\ pc' = "done"
            /\ runErr' = IF cmd = "audit"
                         THEN Errorf("failed to list namespaces: %v", ErrClient)
                         ELSE Errorf("failed to get migration candidates: %v", ErrClient)
            /\ UNCHANGED <<scanVars, candidates, idx>>
       ELSE LET filtered == FilterNamespaces(mgmt)
            IN /\ namespaces' = filtered
               /\ nsIdx' = 1
               /\ runErr' = runErr
               /\ IF filtered = <<>>
                  THEN ScanDone(auditRes, candidates)
                  ELSE /\ pc' = "scan"
                       /\ UNCHANGED <<auditRes, output, candidates, idx>>
  /\ UNCHANGED <<optVars, clockStep, mgmt, svc, svc0, cancelled, results, waitVars, logVars>>

\* one iteration of the loop over the namespaces: main.go 263-281 in the
\* audit command, 665-675 in the migrate command
ScanNamespace ==
  /\ pc = "scan"
  /\ nsIdx <= Len(namespaces)
  /\ \E listOK \in BOOLEAN :
       LET ns == namespaces[nsIdx]
           r == auditNamespace(listOK, ItemsOf(mgmt, ns), ns)
           res == IF cmd # "audit" THEN auditRes
                  ELSE IF r.err # NoErr
                  THEN [auditRes EXCEPT !.Errors =
                          Append(@, [Namespace |-> ns, Error |-> r.err])]
                  ELSE AddToBucket(auditRes, r.info)
           cands == IF cmd = "migrate" /\ r.err = NoErr /\ IsCandidate(r.info)
                    THEN Append(candidates, r.info)
                    ELSE candidates
       IN /\ scanLog' = IF r.err = NoErr THEN Append(scanLog, r.info) ELSE scanLog
          /\ IF nsIdx = Len(namespaces)
             THEN ScanDone(res, cands)
             ELSE /\ auditRes' = res
                  /\ candidates' = cands
                  /\ UNCHANGED <<pc, output, idx>>
  /\ nsIdx' = nsIdx + 1
  /\ UNCHANGED <<optVars, clockStep, mgmt, svc, svc0, runErr, cancelled, namespaces,
                 results, waitVars, patchLog, syncCalls, syncLog>>

\* utils.ConfirmPrompt, main.go 548-557
Confirm ==
  /\ pc = "confirm"
  /\ \E yes \in BOOLEAN :
       IF ~yes
       THEN /\ pc' = "done"
            /\ runErr' = Errorf("migration cancelled by user", <<>>)
       ELSE /\ pc' = IF dryRun THEN "done" ELSE "migrate"
            /\ runErr' = runErr
  /\ UNCHANGED <<optVars, clockStep, mgmt, svc, svc0, cancelled, scanVars, candidates,
                 idx, results, waitVars, logVars>>

\* a loop that migrates a failed candidate again (while fewer than two patches were made)
FinishCandidate_RetryFailed(patchErr, syncErr) ==
  LET result == migrateCluster(candidates[idx], patchErr, syncErr)
  IN IF result.Status = "failed" /\ Len(patchLog) < 2
     THEN /\ results' = results
          /\ idx' = idx
          /\ pc' = "migrate"
     ELSE /\ results' = AppendResult(results, result)
          /\ idx' = idx + 1
          /\ pc' = migrateClustersNext(result, idx, Len(candidates))

\* migrateCluster returns: its result is appended and the loop goes on
FinishCandidate(patchErr, syncErr) ==
  LET result == migrateCluster(candidates[idx], patchErr, syncErr)
  IN /\ results' = AppendResult(results, result)
     /\ idx' = idx + 1
     /\ pc' = migrateClustersNext(result, idx, Len(candidates))

\* migrateCluster up to the select of waitForSync: patchManifestWork
\* (main.go 708-712), then the deadline and the ticker (main.go 803-807).
\* The ticker is created after the deadline is computed: no time or one
\* step of the clock lies between the two.
MigratePatch ==
  /\ pc = "migrate"
  /\ idx <= Len(candidates)
  /\ \E getOK, updateOK \in BOOLEAN :
       LET info == candidates[idx]
           p == patchManifestWork(svc, info.ClusterID, getOK, updateOK)
       IN /\ svc' = p.store
          /\ patchLog' = Append(patchLog,
                                [ClusterID |-> info.ClusterID,
                                 Namespace |-> info.Namespace,
                                 err |-> p.err,
                                 got |-> p.got,
                                 updateCalled |-> p.updateCalled])
          /\ IF patchFailed(p.err)
             THEN /\ FinishCandidate(p.err, NoErr)
                  /\ UNCHANGED <<waitVars, syncCalls>>
             ELSE /\ syncCalls' = Append(syncCalls, info.ClusterID)
                  /\ now' = 0
                  /\ deadline' = timeout
                  /\ \E d \in {0, clockStep} : nextTick' = d + pollInterval
                  /\ tickPending' = FALSE
                  /\ attempt' = 0
                  /\ fetchStart' = 0
                  /\ raced' = FALSE
                  /\ lastFetch' = NoFetch
                  /\ pc' = "select"
                  /\ UNCHANGED <<results, idx>>
  /\ UNCHANGED <<optVars, clockStep, mgmt, svc0, runErr, cancelled, scanVars,
                 candidates, scanLog, syncLog>>

\* a tick that examines the deadline before it starts the fetch
SelectTick_DeadlineBeforeFetch ==
  /\ pc = "select"
  /\ tickPending
  /\ tickPending' = FALSE
  /\ attempt' = attempt + 1
  /\ IF now > deadline
     THEN /\ syncLog' = Append(syncLog, [ClusterID |-> candidates[idx].ClusterID,
                                         err |-> ErrTimeoutNotSynced])
          /\ FinishCandidate(NoErr, ErrTimeoutNotSynced)
          /\ UNCHANGED <<fetchStart, raced>>
     ELSE /\ fetchStart' = now
          /\ raced' = cancelled
          /\ pc' = "fetch"
          /\ UNCHANGED <<idx, results, syncLog>>
  /\ UNCHANGED <<optVars, clockStep, mgmt, svc, svc0, runErr, cancelled, scanVars,
                 candidates, now, deadline, nextTick, lastFetch,
                 scanLog, patchLog, syncCalls>>

\* case <-ticker.C, main.go 812-815: the fetch is started
SelectTick ==
  /\ pc = "select"
  /\ tickPending
  /\ tickPending' = FALSE
  /\ attempt' = attempt + 1
  /\ fetchStart' = now
  /\ raced' = cancelled
  /\ pc' = "fetch"
  /\ UNCHANGED <<optVars, clockStep, mgmt, svc, svc0, runErr, cancelled, scanVars,
                 candidates, idx, results, now, deadline, nextTick, lastFetch,
                 logVars>>

\* case <-ctx.Done(), main.go 810-811
SelectDone ==
  /\ pc = "select"
  /\ cancelled
  /\ syncLog' = Append(syncLog, [ClusterID |-> candidates[idx].ClusterID,
                                 err |-> ErrContextCancelled])
  /\ FinishCandidate(NoErr, ErrContextCancelled)
  /\ UNCHANGED <<optVars, clockStep, mgmt, svc, svc0, runErr, cancelled, scanVars,
                 candidates, waitVars, scanLog, patchLog, syncCalls>>

\* the fetch returns and the tick is evaluated, main.go 815-834
FetchReturn ==
  /\ pc = "fetch"
  /\ \E getOK \in BOOLEAN :
       LET info == candidates[idx]
           f == getHostedClusterFromMgmt(mgmt, getOK, info.Namespace, info.ClusterName)
           r == waitForSyncTick(f.err = NoErr, f.Annotations, now, deadline)
       IN /\ lastFetch' = [n |-> attempt,
                           ok |-> f.err = NoErr,
                           ann |-> f.Annotations,
                           startedLate |-> fetchStart > deadline,
                           late |-> now > deadline]
          /\ IF r.done
             THEN /\ syncLog' = Append(syncLog, [ClusterID |-> info.ClusterID,
                                                 err |-> r.err])
                  /\ FinishCandidate(NoErr, r.err)
             ELSE /\ pc' = "select"
                  /\ UNCHANGED <<syncLog, results, idx>>
  /\ fetchStart' = 0
  /\ UNCHANGED <<optVars, clockStep, mgmt, svc, svc0, runErr, cancelled, scanVars,
                 candidates, now, deadline, nextTick, tickPending, attempt,
                 raced, scanLog, patchLog, syncCalls>>

(***************************************************************************)
(* The environment: time passes while waitForSync waits or fetches (the    *)
(* ticker drops the ticks of a slow receiver), the context is cancelled,   *)
(* and the work agent applies an updated ManifestWork to the management    *)
(* cluster.                                                                *)
(***************************************************************************)
MaxNow == timeout + 2 * pollInterval

\* A select with a ready case is taken before the clock advances, and a Get
\* returns within MaxFetch.
AdvanceTime ==
  /\ pc \in {"select", "fetch"}
  /\ now < MaxNow
  /\ pc = "select" => ~tickPending /\ ~cancelled
  /\ pc = "fetch" => now + clockStep - fetchStart <= MaxFetch
  /\ now' = now + clockStep
  /\ IF now' >= nextTick
     THEN /\ tickPending' = TRUE
          /\ nextTick' = nextTick + pollInterval * (((now' - nextTick) \div pollInterval) + 1)
     ELSE UNCHANGED <<tickPending, nextTick>>
  /\ UNCHANGED <<optVars, clockStep, mgmt, svc, svc0, pc, runErr, cancelled, scanVars,
                 candidates, idx, results, deadline, attempt, fetchStart,
                 raced, lastFetch, logVars>>

Cancel ==
  /\ pc # "done"
  /\ ~cancelled
  /\ cancelled' = TRUE
  /\ UNCHANGED <<optVars, clockStep, mgmt, svc, svc0, pc, runErr, scanVars, candidates,
                 idx, results, waitVars, logVars>>

\* the annotations of the HostedCluster manifest of a manifest list
RECURSIVE ManifestAnnotations(_)
ManifestAnnotations(manifests) ==
  IF manifests = <<>>
  THEN [ok |-> FALSE, kv |-> EmptyKV]
  ELSE LET m == Head(manifests)
       IN IF /\ m.t = "json"
             /\ KindOf(m.obj) = "HostedCluster"
          THEN IF m.obj.metadata.t = "obj" /\ m.obj.metadata.annotations.t = "obj"
               THEN [ok |-> TRUE, kv |-> m.obj.metadata.annotations.kv]
               ELSE [ok |-> TRUE, kv |-> EmptyKV]
          ELSE ManifestAnnotations(Tail(manifests))

Propagate ==
  /\ pc # "done"
  /\ \E i \in 1..Len(mgmt) :
       \E j \in 1..Len(mgmt[i].Items) :
         LET hc == mgmt[i].Items[j]
             id == MapGet(hc.Labels, KeyClusterID).v
         IN /\ id \in DOMAIN svc
            /\ svc[id] # svc0[id]
            /\ LET a == ManifestAnnotations(svc[id])
               IN /\ a.ok
                  /\ MkMap(a.kv) # hc.Annotations
                  /\ mgmt' = [mgmt EXCEPT ![i].Items[j].Annotations = MkMap(a.kv)]
  /\ UNCHANGED <<optVars, clockStep, svc, svc0, pc, runErr, cancelled, scanVars,
                 candidates, idx, results, waitVars, logVars>>

(***************************************************************************)
(* Initial states.                                                         *)
(***************************************************************************)
HC(name, id, annotations) ==
  [Name |-> name,
   Labels |-> MkMap((KeyClusterID :> id) @@ (KeySize :> "m5xl")),
   Annotations |-> annotations]

NsStagB == StrOcmDash \o StrStaging \o <<"-", "B", "2">>
NsProdA == StrOcmDash \o StrProduction \o <<"-", "a", "1">>
NsKube == <<"k", "u", "b", "e", "-", "s", "y", "s", "t", "e", "m">>

BothAnnotations == (KeyTopology :> ValTopology) @@ (KeyAutoScaling :> ValTrue)

\* the annotations of the records of a whole run
RunAnnotations ==
  {MkMap(KeyOverride :> ""),
   MkMap(KeyTopology :> ValTopology),
   MkMap(BothAnnotations)}

\* what a matching namespace holds: nothing, one HostedCluster, or two
RunItems(name, id) ==
  {<<>>}
  \cup {<<HC(name, id, a)>> : a \in RunAnnotations}
  \cup {<<HC(name, id, MkMap(EmptyKV)), HC("extra", "c9", NilMap)>>}

\* the staging namespace is listed first and holds the greater cluster id
RunMgmts ==
  {<<[Name |-> NsStagB, Items |-> b],
     [Name |-> NsKube, Items |-> <<HC("hc-kube", "c9", NilMap)>>],
     [Name |-> NsProdA, Items |-> a]>> :
     b \in RunItems("hc-b", "c2"), a \in RunItems("hc-a", "c1")}

SecretRaw == JsonRaw(TRUE, JObj(JStr("Secret"), JMeta("name", JAbsent), "data"))
HCOldRaw ==
  JsonRaw(FALSE,
          JObj(JStr("HostedCluster"),
               JMeta("name", JAnn((KeyOverride :> "m5xl") @@ (KeyTopology :> "old-value"))),
               "spec"))

RunManifests == {<<SecretRaw>>, <<NilRaw, HCOldRaw>>}
RunSvcs == UNION {[D -> RunManifests] : D \in SUBSET {"c1", "c2"}}

ShowOnlyChoices == {"", NeedsRemoval, ReadyForMigration, AlreadyConfigured, "bogus"}

InitRest ==
  /\ svc0 = svc
  /\ runErr = NoErr
  /\ cancelled = FALSE
  /\ namespaces = <<>>
  /\ nsIdx = 0
  /\ auditRes = EmptyResults
  /\ output = EmptyResults
  /\ candidates = <<>>
  /\ idx = 0
  /\ results = <<>>
  /\ now = 0
  /\ deadline = 0
  /\ nextTick = 0
  /\ tickPending = FALSE
  /\ attempt = 0
  /\ fetchStart = 0
  /\ raced = FALSE
  /\ lastFetch = NoFetch
  /\ scanLog = <<>>
  /\ patchLog = <<>>
  /\ syncCalls = <<>>
  /\ syncLog = <<>>

Init ==
  /\ cmd \in {"audit", "migrate"}
  /\ showOnly \in IF cmd = "audit" THEN ShowOnlyChoices ELSE {""}
  /\ dryRun \in IF cmd = "migrate" THEN BOOLEAN ELSE {FALSE}
  /\ skipConfirmation \in IF cmd = "migrate" THEN BOOLEAN ELSE {FALSE}
  /\ mgmt \in RunMgmts
  /\ svc \in RunSvcs
  /\ clockStep = pollInterval
  /\ pc = "init"
  /\ InitRest

Next ==
  \/ Initialize
  \/ ListNamespaces
  \/ ScanNamespace
  \/ Confirm
  \/ MigratePatch
  \/ SelectTick
  \/ SelectDone
  \/ FetchReturn
  \/ AdvanceTime
  \/ Cancel
  \/ Propagate

Spec == Init /\ [][Next]_vars

(***************************************************************************)
(* The audit command on one namespace whose record carries any of the      *)
(* annotation maps over the keys and the values below.                     *)
(***************************************************************************)
AuditKeys == {KeyOverride, KeyTopology, KeyAutoScaling, KeyOther}
AuditVals == {"", ValTopology, "Dedicated-Request-Serving-Components", ValTrue, "True"}

AuditMgmts ==
  {<<[Name |-> NsProdA, Items |-> <<HC("hc-a", "c1", a)>>]>> :
     a \in AllMaps(AuditKeys, AuditVals)}

InitAudit ==
  /\ cmd = "audit"
  /\ showOnly \in ShowOnlyChoices
  /\ dryRun = FALSE
  /\ skipConfirmation = FALSE
  /\ mgmt \in AuditMgmts
  /\ svc = [id \in {} |-> <<>>]
  /\ clockStep = pollInterval
  /\ pc = "init"
  /\ InitRest

NextAudit ==
  \/ Initialize
  \/ ListNamespaces
  \/ ScanNamespace
  \/ Cancel

SpecAudit == InitAudit /\ [][NextAudit]_vars

\* the records of a bucket of the audit results
InBucket(bucket) == {bucket[i] : i \in 1..Len(bucket)}
Classified ==
  InBucket(auditRes.NeedsLabelRemoval) \cup InBucket(auditRes.ReadyForMigration)
    \cup InBucket(auditRes.AlreadyConfigured)
\* the scan of an audit has gone through every namespace without an error
AuditScanned ==
  /\ cmd = "audit"
  /\ pc = "done"
  /\ runErr = NoErr
  /\ auditRes.Errors = <<>>
CarriesOverride(annotations) == ~annotations.nil /\ KeyOverride \in DOMAIN annotations.kv

\* the namespaces of the store that the scan resolved to one record
Resolved ==
  {i \in 1..Len(mgmt) : ocmNamespacePattern(mgmt[i].Name) /\ Len(mgmt[i].Items) = 1}
\* the record of namespace i of the store sits in no bucket but the given one
OnlyInBucket(i, bucket) ==
  /\ \E info \in InBucket(bucket) :
       /\ info.Namespace = mgmt[i].Name
       /\ info.Annotations = mgmt[i].Items[1].Annotations
  /\ \A info \in Classified \ InBucket(bucket) : info.Namespace # mgmt[i].Name

\* C1: a record that carries the cluster-size-override annotation, whatever
\* the annotation's value (the empty string included) and whatever its other
\* annotations, is classified needs-removal: the scan never files it under
\* ready-for-migration or already-configured, and a complete audit lists it
\* in the needs-removal bucket.
C1_OverrideIsNeedsRemoval ==
  /\ \A info \in Classified \cup InBucket(scanLog) :
       CarriesOverride(info.Annotations) => info.Category = NeedsRemoval
  /\ \A info \in InBucket(auditRes.ReadyForMigration)
                   \cup InBucket(auditRes.AlreadyConfigured) :
       ~CarriesOverride(info.Annotations)
  /\ AuditScanned =>
       \A i \in Resolved :
         CarriesOverride(mgmt[i].Items[1].Annotations)
           => OnlyInBucket(i, auditRes.NeedsLabelRemoval)

\* an audit has filed a record with an empty override value and both target
\* annotations under needs-removal
C1_Witness ==
  /\ AuditScanned
  /\ \E info \in InBucket(auditRes.NeedsLabelRemoval) :
       info.Annotations = MkMap((KeyOverride :> "") @@ BothAnnotations)

\* rule 2 of the classification, on the annotations of a record
BothExact(annotations) ==
  /\ ~annotations.nil
  /\ "hypershift.openshift.io/topology" \in DOMAIN annotations.kv
  /\ annotations.kv["hypershift.openshift.io/topology"]
       = "dedicated-request-serving-components"
  /\ "hypershift.openshift.io/resource-based-cp-auto-scaling" \in DOMAIN annotations.kv
  /\ annotations.kv["hypershift.openshift.io/resource-based-cp-auto-scaling"] = "true"

\* C2: a record without the override annotation is classified
\* already-configured exactly when its topology annotation is the exact
\* string dedicated-request-serving-components and its auto-scaling
\* annotation the exact string true; in every other case (a key missing, a
\* value differing by case, an empty value, a nil or an empty annotation
\* map) it is classified ready-for-migration, and a complete audit lists it
\* in the matching bucket.
C2_ConfiguredIffBothExact ==
  /\ \A info \in Classified \cup InBucket(scanLog) :
       ~CarriesOverride(info.Annotations) =>
         info.Category = IF BothExact(info.Annotations)
                         THEN AlreadyConfigured
                         ELSE ReadyForMigration
  /\ \A info \in InBucket(auditRes.AlreadyConfigured) :
       ~CarriesOverride(info.Annotations) => BothExact(info.Annotations)
  /\ \A info \in InBucket(auditRes.ReadyForMigration) :
       ~CarriesOverride(info.Annotations) => ~BothExact(info.Annotations)
  /\ AuditScanned =>
       \A i \in Resolved :
         ~CarriesOverride(mgmt[i].Items[1].Annotations) =>
           IF BothExact(mgmt[i].Items[1].Annotations)
           THEN OnlyInBucket(i, auditRes.AlreadyConfigured)
           ELSE OnlyInBucket(i, auditRes.ReadyForMigration)

\* an audit has filed a record whose topology value differs from the target
\* by case only, and whose auto-scaling value is true, under
\* ready-for-migration
C2_Witness ==
  /\ AuditScanned
  /\ \E info \in InBucket(auditRes.ReadyForMigration) :
       info.Annotations =
         MkMap((KeyTopology :> "Dedicated-Request-Serving-Components")
                 @@ (KeyAutoScaling :> ValTrue))

(***************************************************************************)
(* patchManifestWork alone: the run stands before the patch of its one     *)
(* candidate, and the ManifestWork of the candidate holds any manifest     *)
(* list of at most MaxManifests of the elements below.                     *)
(***************************************************************************)
PatchKVs ==
  {f \in AllKV({KeyTopology, KeyAutoScaling, KeyOverride},
               {ValTopology, "old-value", ValTrue, "false", "m5xl"}) :
     /\ KeyTopology \in DOMAIN f => f[KeyTopology] \in {ValTopology, "old-value"}
     /\ KeyAutoScaling \in DOMAIN f => f[KeyAutoScaling] \in {ValTrue, "false"}
     /\ KeyOverride \in DOMAIN f => f[KeyOverride] = "m5xl"}
PatchMetas ==
  {JAbsent, JOther}
    \cup {JMeta("name", a) : a \in {JAbsent, JOther} \cup {JAnn(kv) : kv \in PatchKVs}}
PatchRaws ==
  {NilRaw, BadRaw, SecretRaw,
   JsonRaw(TRUE, JObj(JOther, JAbsent, "spec")),
   JsonRaw(TRUE, JObj(JStr("hostedcluster"), JMeta("name", JAbsent), "spec"))}
    \cup {JsonRaw(c, JObj(JStr("HostedCluster"), m, "spec")) :
            c \in BOOLEAN, m \in PatchMetas}
PatchLists == UNION {[1..n -> PatchRaws] : n \in 0..MaxManifests}

PatchCandidate ==
  auditNamespace(TRUE, <<HC("hc-a", "c1", MkMap(EmptyKV))>>, NsProdA).info

InitPatch ==
  /\ cmd = "migrate"
  /\ showOnly = ""
  /\ dryRun = FALSE
  /\ skipConfirmation \in BOOLEAN
  /\ mgmt = <<[Name |-> NsProdA, Items |-> <<HC("hc-a", "c1", MkMap(EmptyKV))>>]>>
  /\ svc \in {"c1" :> l : l \in PatchLists}
  /\ svc0 = svc
  /\ clockStep = pollInterval
  /\ pc = "migrate"
  /\ runErr = NoErr
  /\ cancelled = FALSE
  /\ namespaces = <<NsProdA>>
  /\ nsIdx = 2
  /\ auditRes = EmptyResults
  /\ output = EmptyResults
  /\ candidates = <<PatchCandidate>>
  /\ idx = 1
  /\ results = <<>>
  /\ now = 0
  /\ deadline = 0
  /\ nextTick = 0
  /\ tickPending = FALSE
  /\ attempt = 0
  /\ fetchStart = 0
  /\ raced = FALSE
  /\ lastFetch = NoFetch
  /\ scanLog = <<PatchCandidate>>
  /\ patchLog = <<>>
  /\ syncCalls = <<>>
  /\ syncLog = <<>>

NextPatch == MigratePatch

SpecPatch == InitPatch /\ [][NextPatch]_vars

\* no element of the manifest list is a JSON object of kind HostedCluster
NoHostedCluster(manifests) ==
  \A i \in 1..Len(manifests) :
    ~(/\ manifests[i].t = "json"
      /\ manifests[i].obj.kind = [t |-> "str", s |-> "HostedCluster"])
\* the first element of the manifest list that is one
FirstHostedCluster(manifests) ==
  CHOOSE i \in 1..Len(manifests) :
    /\ ~NoHostedCluster(SubSeq(manifests, 1, i))
    /\ NoHostedCluster(SubSeq(manifests, 1, i - 1))
\* the annotations of an element: the empty function when a level is missing
AnnotationsOfRaw(raw) ==
  IF raw.t = "json" /\ raw.obj.metadata.t = "obj"
       /\ raw.obj.metadata.annotations.t = "obj"
  THEN raw.obj.metadata.annotations.kv
  ELSE EmptyKV
HasAnnotationsObject(raw) ==
  raw.t = "json" /\ raw.obj.metadata.t = "obj" /\ raw.obj.metadata.annotations.t = "obj"

\* C9: when the ManifestWork was fetched and no element of its manifest list
\* deserializes to an object of kind HostedCluster, patchManifestWork fails
\* with the not-found error, Update is not called and the ManifestWork in the
\* store is what it was.
C9_NotFoundNoUpdate ==
  \A k \in 1..Len(patchLog) :
    LET e == patchLog[k]
    IN (e.got /\ NoHostedCluster(svc0[e.ClusterID])) =>
         /\ e.err = <<"HostedCluster not found in ManifestWork manifests">>
         /\ ~e.updateCalled
         /\ svc[e.ClusterID] = svc0[e.ClusterID]

\* the patch of a list of a nil element and a Secret has failed with the
\* not-found error
C9_Witness ==
  /\ svc0["c1"] = <<NilRaw, SecretRaw>>
  /\ Len(patchLog) = 1
  /\ patchLog[1].got
  /\ patchLog[1].err = ErrNotFoundInManifests
  /\ Len(results) = 1

\* C10: after a successful patch the first HostedCluster element has an
\* annotations object in which the topology annotation is
\* dedicated-request-serving-components and the auto-scaling annotation is
\* true, whether or not the metadata and annotations levels existed before;
\* every other annotation key of the element keeps its value and no further
\* key appears.
C10_PatchSetsTwoKeys ==
  \A k \in 1..Len(patchLog) :
    LET e == patchLog[k]
    IN e.err = NoErr =>
         LET i == FirstHostedCluster(svc0[e.ClusterID])
             before == AnnotationsOfRaw(svc0[e.ClusterID][i])
             after == AnnotationsOfRaw(svc[e.ClusterID][i])
         IN /\ ~NoHostedCluster(svc0[e.ClusterID])
            /\ Len(svc[e.ClusterID]) = Len(svc0[e.ClusterID])
            /\ HasAnnotationsObject(svc[e.ClusterID][i])
            /\ svc[e.ClusterID][i].obj.kind = svc0[e.ClusterID][i].obj.kind
            /\ DOMAIN after = DOMAIN before \cup {KeyTopology, KeyAutoScaling}
            /\ after[KeyTopology] = "dedicated-request-serving-components"
            /\ after[KeyAutoScaling] = "true"
            /\ \A key \in DOMAIN before \ {KeyTopology, KeyAutoScaling} :
                 after[key] = before[key]

\* a patch has succeeded on an element that carried an old topology value
\* and the override annotation and no auto-scaling annotation
C10_Witness ==
  /\ Len(patchLog) = 1
  /\ patchLog[1].err = NoErr
  /\ svc0["c1"] = <<SecretRaw, HCOldRaw>>
  /\ AnnotationsOfRaw(svc["c1"][2])
       = (KeyOverride :> "m5xl") @@ BothAnnotations

(***************************************************************************)
(* Properties of the migrate command, on the whole run (Spec).             *)
(***************************************************************************)
\* the override annotation of an element of a manifest list
OverrideOfRaw(raw) ==
  IF HasAnnotationsObject(raw) /\ KeyOverride \in DOMAIN raw.obj.metadata.annotations.kv
  THEN <<raw.obj.metadata.annotations.kv[KeyOverride]>>
  ELSE <<>>

\* C3: patchManifestWork is called only for clusters the scan of this run
\* classified ready-for-migration: never for a cluster whose record carried
\* the override annotation or both target annotations at scan time; and the
\* override annotation of every manifest of the service cluster is what it
\* was when the run began.
C3_PatchOnlyReady ==
  /\ \A k \in 1..Len(patchLog) :
       \E j \in 1..Len(scanLog) :
         /\ scanLog[j].Namespace = patchLog[k].Namespace
         /\ scanLog[j].ClusterID = patchLog[k].ClusterID
         /\ scanLog[j].Category = ReadyForMigration
  /\ \A j \in 1..Len(scanLog) :
       (CarriesOverride(scanLog[j].Annotations) \/ BothExact(scanLog[j].Annotations))
         => \A k \in 1..Len(patchLog) : patchLog[k].Namespace # scanLog[j].Namespace
  /\ \A id \in DOMAIN svc :
       /\ Len(svc[id]) = Len(svc0[id])
       /\ \A i \in 1..Len(svc[id]) : OverrideOfRaw(svc[id][i]) = OverrideOfRaw(svc0[id][i])

\* a run has patched the manifest of one cluster, override annotation of the
\* manifest included, after its scan met a cluster with the override
\* annotation on its record
C3_Witness ==
  /\ pc = "done"
  /\ \E j \in 1..Len(scanLog) : scanLog[j].Category = NeedsRemoval
  /\ \E k \in 1..Len(patchLog) :
       /\ patchLog[k].err = NoErr
       /\ svc[patchLog[k].ClusterID] # svc0[patchLog[k].ClusterID]
       /\ \E i \in 1..Len(svc[patchLog[k].ClusterID]) :
            OverrideOfRaw(svc[patchLog[k].ClusterID][i]) = <<"m5xl">>

\* migrateClusters was entered: its first iteration patches
MigrateEntered == patchLog # <<>>

\* C4: migrateClusters yields one result per candidate, in the order of the
\* candidates, each with the cluster id and the cluster name of its
\* candidate; a failed candidate does not end the loop.  While the loop
\* runs the results are those of the candidates before the current one.
C4_OneResultPerCandidate ==
  /\ Len(results) <= Len(candidates)
  /\ \A i \in 1..Len(results) :
       /\ results[i].ClusterID = candidates[i].ClusterID
       /\ results[i].ClusterName = candidates[i].ClusterName
  /\ pc \in {"migrate", "select", "fetch"} => Len(results) = idx - 1
  /\ (pc = "done" /\ MigrateEntered) => Len(results) = Len(candidates)

\* the first of two candidates has failed and the second has succeeded
C4_Witness ==
  /\ pc = "done"
  /\ Len(candidates) = 2
  /\ Len(results) = 2
  /\ results[1].Status = "failed"
  /\ results[2].Status = "success"

\* C5: a candidate whose patchManifestWork returned an error gets the
\* status failed with the error of the patch, wrapped; waitForSync is not
\* invoked for it; and the loop goes on to the next candidate.
C5_PatchFailureSkipsSync ==
  /\ \A i \in 1..Len(results) :
       (i <= Len(patchLog) /\ patchLog[i].err # <<>>) =>
         /\ patchLog[i].ClusterID = results[i].ClusterID
         /\ results[i].Status = "failed"
         /\ results[i].Error = <<"failed to patch ManifestWork: %v">> \o patchLog[i].err
         /\ \A c \in 1..Len(syncCalls) : syncCalls[c] # results[i].ClusterID
  /\ \A k \in 1..Len(patchLog) :
       (patchLog[k].err # <<>> /\ k = Len(patchLog)) =>
         /\ Len(results) = k
         /\ idx = k + 1
         /\ pc = IF k < Len(candidates) THEN "migrate" ELSE "done"
  /\ (pc \in {"select", "fetch"}) =>
       /\ Len(patchLog) = idx
       /\ patchLog[idx].err = <<>>

\* the patch of the first of two candidates has failed at Get, and the
\* second candidate has been patched
C5_Witness ==
  /\ Len(candidates) = 2
  /\ Len(patchLog) = 2
  /\ ~patchLog[1].got
  /\ results[1].Status = "failed"
  /\ syncCalls = <<candidates[2].ClusterID>>

(***************************************************************************)
(* waitForSync under a fine clock: a migrate run with one cluster that is  *)
(* ready for migration, whose ManifestWork holds a HostedCluster manifest, *)
(* with the clock advancing FineStep seconds a step.                       *)
(***************************************************************************)
HCBareRaw == JsonRaw(FALSE, JObj(JStr("HostedCluster"), JAbsent, "spec"))

InitSync ==
  /\ cmd = "migrate"
  /\ showOnly = ""
  /\ dryRun \in BOOLEAN
  /\ skipConfirmation \in BOOLEAN
  /\ mgmt \in {<<[Name |-> NsProdA, Items |-> <<HC("hc-a", "c1", a)>>]>> :
                 a \in {NilMap, MkMap(KeyAutoScaling :> ValTrue)}}
  /\ svc \in {"c1" :> l : l \in {<<NilRaw, HCOldRaw>>, <<HCBareRaw>>}}
  /\ clockStep = FineStep
  /\ pc = "init"
  /\ InitRest

SpecSync == InitSync /\ [][Next]_vars

\* a call of waitForSync has not returned yet
WaitRunning == pc \in {"select", "fetch"}
\* what the last call of waitForSync that returned has returned
LastErr == syncLog[Len(syncLog)].err
\* the last fetch of the last call found the record satisfied
FetchSatisfied == lastFetch.n > 0 /\ lastFetch.ok /\ BothExact(lastFetch.ann)
TimeoutErrs ==
  {<<"timeout waiting for sync after %v", "5m0s">>,
   <<"timeout: annotations did not sync after %v", "5m0s">>}

\* C6: the first fetch that shows the record satisfied ends the call of
\* waitForSync with success: the call waits for no further tick and makes
\* no further fetch, whether the fetch returned in the middle of an
\* interval or not, and the candidate's result is success.
C6_SatisfiedFetchReturnsSuccess ==
  FetchSatisfied =>
    /\ ~WaitRunning
    /\ attempt = lastFetch.n
    /\ syncLog # <<>>
    /\ LastErr = <<>>
    /\ \E i \in 1..Len(results) :
         /\ results[i].ClusterID = syncLog[Len(syncLog)].ClusterID
         /\ results[i].Status = "success"

\* the second or a later fetch of a call has returned satisfied before the
\* deadline, at a time that is no multiple of the poll interval
C6_Witness ==
  /\ FetchSatisfied
  /\ pc = "done"
  /\ attempt >= 2
  /\ now < deadline
  /\ now % pollInterval # 0

C8_CancellationTakesPrecedence ==
  (~WaitRunning /\ syncLog # <<>> /\ raced) => LastErr = <<"context cancelled">>

\* C8 as amended: the call returns the cancelled failure, which differs
\* from both timeout failures, only if the context was cancelled, and it
\* does return it when it leaves a select at which the cancellation is the
\* only ready case; the candidate's result is then failed.  (When a tick is
\* ready as well either case may be taken, and a cancellation during a
\* fetch is seen only at the next select.)
C8_CancelledWhenOnlyCancellationReady ==
  /\ [](/\ ErrContextCancelled \notin TimeoutErrs
        /\ \A k \in 1..Len(syncLog) : syncLog[k].err = <<"context cancelled">> => cancelled)
  /\ [][(pc = "select" /\ cancelled /\ ~tickPending /\ pc' # "select") =>
          /\ syncLog' = Append(syncLog, [ClusterID |-> candidates[idx].ClusterID,
                                         err |-> <<"context cancelled">>])
          /\ Len(results') = Len(results) + 1
          /\ results'[Len(results')].Status = "failed"
          /\ results'[Len(results')].Error =
               <<"sync verification failed: %v", "context cancelled">>]_vars

\* a call has returned the cancelled failure after at least one fetch
C8_Witness ==
  /\ pc = "done"
  /\ cancelled
  /\ syncLog # <<>>
  /\ LastErr = <<"context cancelled">>
  /\ lastFetch.n >= 1
  /\ ~raced

\* C11: a successful patch rewrites exactly one element of the manifest
\* list, the first that is non-nil, deserializes and has kind HostedCluster:
\* nil, malformed and other-kind elements before it do not make the patch
\* fail, every other element (a later HostedCluster included) holds the
\* bytes it held before, and the list keeps its length and order.  A patch
\* that fails leaves the whole list as it was.
C11_PatchesFirstHostedClusterOnly ==
  \A k \in 1..Len(patchLog) :
    LET e == patchLog[k]
        before == svc0[e.ClusterID]
        after == svc[e.ClusterID]
    IN IF e.err = NoErr
       THEN /\ ~NoHostedCluster(before)
            /\ Len(after) = Len(before)
            /\ \A j \in 1..Len(before) :
                 IF j = FirstHostedCluster(before)
                 THEN /\ after[j].t = "json"
                      /\ after[j].obj.kind = before[j].obj.kind
                      /\ after[j].obj.rest = before[j].obj.rest
                      /\ AnnotationsOfRaw(after[j])[KeyTopology] = ValTopology
                 ELSE after[j] = before[j]
       ELSE e.ClusterID \in DOMAIN svc0 => after = before

\* a patch has succeeded on a list of two HostedCluster elements, the first
\* without metadata: the second element still holds its old topology value
C11_Witness ==
  /\ Len(patchLog) = 1
  /\ patchLog[1].err = NoErr
  /\ svc0["c1"] = <<HCBareRaw, HCOldRaw>>
  /\ svc["c1"][1] # HCBareRaw
  /\ svc["c1"][2] = HCOldRaw

(***************************************************************************)
(* The migrate command run again.  The process ends, by returning or by    *)
(* being interrupted (main passes context.Background(), so an interrupt    *)
(* ends the process wherever it stands), and the same command line is      *)
(* invoked anew: the state of the process is that of a fresh start, the    *)
(* two clusters' stores are what the earlier runs left.  patchLog goes on  *)
(* over the runs; the other logs are those of the run.                     *)
(***************************************************************************)
Rerun ==
  /\ pc # "init"
  /\ Len(patchLog) >= 1
  /\ Len(patchLog) < MaxPatches
  /\ pc' = "init"
  /\ runErr' = NoErr
  /\ cancelled' = FALSE
  /\ namespaces' = <<>>
  /\ nsIdx' = 0
  /\ auditRes' = EmptyResults
  /\ output' = EmptyResults
  /\ candidates' = <<>>
  /\ idx' = 0
  /\ results' = <<>>
  /\ now' = 0
  /\ deadline' = 0
  /\ nextTick' = 0
  /\ tickPending' = FALSE
  /\ attempt' = 0
  /\ fetchStart' = 0
  /\ raced' = FALSE
  /\ lastFetch' = NoFetch
  /\ scanLog' = <<>>
  /\ syncCalls' = <<>>
  /\ syncLog' = <<>>
  /\ UNCHANGED <<optVars, clockStep, mgmt, svc, svc0, patchLog>>

\* the manifest lists of the repeated runs: every list of at most one element
\* and lists in which the HostedCluster element comes second or twice
RepatchLists ==
  {<<>>} \cup {<<r>> : r \in PatchRaws}
    \cup {<<a, b>> : a \in {NilRaw, BadRaw, SecretRaw, HCBareRaw},
                     b \in {HCOldRaw, HCBareRaw, SecretRaw}}

InitRepatch ==
  /\ cmd = "migrate"
  /\ showOnly = ""
  /\ dryRun = FALSE
  /\ skipConfirmation \in BOOLEAN
  /\ mgmt = <<[Name |-> NsProdA, Items |-> <<HC("hc-a", "c1", MkMap(EmptyKV))>>]>>
  /\ svc \in {"c1" :> l : l \in RepatchLists}
  /\ clockStep = pollInterval
  /\ pc = "init"
  /\ InitRest

NextRepatch ==
  \/ Initialize
  \/ ListNamespaces
  \/ ScanNamespace
  \/ Confirm
  \/ MigratePatch
  \/ Rerun

SpecRepatch == InitRepatch /\ [][NextRepatch]_vars

\* the step is a call of patchManifestWork that returns no error
PatchSucceeds ==
  /\ Len(patchLog') = Len(patchLog) + 1
  /\ patchLog'[Len(patchLog')].err = NoErr
\* an earlier call for the same cluster has returned no error
PatchedBefore ==
  \E k \in 1..Len(patchLog) :
    /\ patchLog[k].err = NoErr
    /\ patchLog[k].ClusterID = patchLog'[Len(patchLog')].ClusterID

\* C12: the patch is idempotent: a successful patch of a manifest list that
\* an earlier successful patch has already rewritten leaves the list with
\* the content it had, element by element.
C12_PatchIdempotent ==
  [][(PatchSucceeds /\ PatchedBefore) => svc' = svc]_vars

\* the manifest list of an old HostedCluster document has been patched by
\* two runs and differs from the list the first run found
C12_Witness ==
  /\ Len(patchLog) = 2
  /\ patchLog[1].err = NoErr
  /\ patchLog[2].err = NoErr
  /\ svc0["c1"] = <<NilRaw, HCOldRaw>>
  /\ svc["c1"] # svc0["c1"]

(***************************************************************************)
(* Properties of the scan, on the whole run (Spec).                        *)
(***************************************************************************)
\* the namespaces the loop of the scan has gone through
Processed == IF nsIdx = 0 THEN 0 ELSE nsIdx - 1
\* the entries of the error list for a namespace
ErrorsOf(ns) == {e \in 1..Len(auditRes.Errors) : auditRes.Errors[e].Namespace = ns}
\* the error of a namespace that holds n records, n other than 1
NotExactlyOne(n) ==
  IF n = 0 THEN <<"no HostedCluster found">>
           ELSE <<"found %d HostedClusters, expected 1", Itoa(n)>>

\* C13: a matching namespace that does not hold exactly one HostedCluster is
\* captured as one entry of the error list, with its name and the message of
\* the failed lookup, and is filed in no bucket; a namespace with one
\* HostedCluster gives one bucket entry or, when the List call fails, one
\* error entry; and the scan goes on: every namespace gone through is
\* accounted for, and an audit that ends without an error of the run has
\* gone through all of them.  In the migrate command such a namespace gives
\* no candidate.
C13_ScanErrorsCaptured ==
  /\ cmd = "audit" =>
       /\ \A k \in 1..Processed :
            LET ns == namespaces[k]
                n == Len(ItemsOf(mgmt, ns))
                filed == {info \in Classified : info.Namespace = ns}
            IN IF n # 1
               THEN /\ Cardinality(ErrorsOf(ns)) = 1
                    /\ \A e \in ErrorsOf(ns) :
                         auditRes.Errors[e].Error \in {NotExactlyOne(n), ErrClient}
                    /\ filed = {}
               ELSE Cardinality(ErrorsOf(ns)) + Cardinality(filed) = 1
       /\ \A e \in 1..Len(auditRes.Errors) :
            \E k \in 1..Processed : namespaces[k] = auditRes.Errors[e].Namespace
       /\ (pc = "done" /\ runErr = NoErr) => Processed = Len(namespaces)
  /\ \A j \in 1..Len(scanLog) : Len(ItemsOf(mgmt, scanLog[j].Namespace)) = 1
  /\ \A c \in 1..Len(candidates) : Len(ItemsOf(mgmt, candidates[c].Namespace)) = 1

\* an audit has recorded an empty namespace and then a namespace with two
\* HostedClusters as errors
C13_Witness ==
  /\ cmd = "audit"
  /\ pc = "done"
  /\ auditRes.Errors =
       <<[Namespace |-> NsStagB, Error |-> <<"no HostedCluster found">>],
         [Namespace |-> NsProdA,
          Error |-> <<"found %d HostedClusters, expected 1", "2">>]>>
  /\ Classified = {}

\* an audit has returned its result
AuditReturned == cmd = "audit" /\ pc = "done" /\ runErr = NoErr

\* C14: in the unfiltered result of an audit total_scanned is the sum of
\* the sizes of the three buckets, which is the number of records the scan
\* resolved: the namespaces of the error list are not counted.  Without a
\* filter the unfiltered result is the output.
C14_TotalIsSumOfBuckets ==
  AuditReturned =>
    /\ auditRes.TotalScanned = Len(auditRes.NeedsLabelRemoval)
                               + Len(auditRes.ReadyForMigration)
                               + Len(auditRes.AlreadyConfigured)
    /\ auditRes.TotalScanned = Len(namespaces) - Len(auditRes.Errors)
    /\ auditRes.TotalScanned = Len(scanLog)
    /\ showOnly = "" => output = auditRes

\* an audit of two namespaces has returned a total of 1 next to one error
C14_Witness ==
  /\ AuditReturned
  /\ showOnly = ""
  /\ Len(namespaces) = 2
  /\ Len(auditRes.Errors) = 1
  /\ output.TotalScanned = 1
  /\ Len(output.AlreadyConfigured) = 1

\* the result that holds the bucket of one category only
OnlyBucket(res, category) ==
  [MgmtClusterID |-> res.MgmtClusterID,
   TotalScanned |-> IF category = "needs-removal" THEN Len(res.NeedsLabelRemoval)
                    ELSE IF category = "ready-for-migration"
                    THEN Len(res.ReadyForMigration)
                    ELSE Len(res.AlreadyConfigured),
   NeedsLabelRemoval |-> IF category = "needs-removal"
                         THEN res.NeedsLabelRemoval ELSE <<>>,
   ReadyForMigration |-> IF category = "ready-for-migration"
                         THEN res.ReadyForMigration ELSE <<>>,
   AlreadyConfigured |-> IF category = "already-configured"
                         THEN res.AlreadyConfigured ELSE <<>>,
   Errors |-> res.Errors]
\* the error of a --show-only value the audit command does not accept
InvalidFilter ==
  <<"invalid show-only filter '%s'. Valid options: needs-removal, ready-for-migration",
    showOnly>>

\* C15 as stated: an audit asked to show only one of the three categories,
\* and failing for no other reason, outputs the result that holds that
\* category's bucket alone, with total_scanned the size of the bucket and
\* the error list of the unfiltered result.
C15_FilterEachCategory ==
  (/\ cmd = "audit"
   /\ pc = "done"
   /\ showOnly \in {"needs-removal", "ready-for-migration", "already-configured"}
   /\ runErr \in {NoErr, InvalidFilter})
    => /\ runErr = NoErr
       /\ output = OnlyBucket(auditRes, showOnly)

\* C15 as amended: filtering is offered for needs-removal and
\* ready-for-migration only.  For these two the output holds that
\* category's bucket alone, total_scanned is the size of the bucket and the
\* error list is that of the unfiltered result.  Any other value of the
\* filter, already-configured included, is rejected before the scan with
\* the invalid-filter error (or the error of the cluster id) and nothing is
\* output; applyFilter itself returns its input unchanged for such a value.
C15_FilterTwoCategories ==
  cmd = "audit" =>
    /\ (pc = "done" /\ runErr = NoErr
        /\ showOnly \in {"needs-removal", "ready-for-migration"})
         => output = OnlyBucket(auditRes, showOnly)
    /\ showOnly \notin {"", "needs-removal", "ready-for-migration"} =>
         /\ pc \in {"init", "done"}
         /\ pc = "done" => runErr \in {InvalidFilter, <<"invalid cluster key">>}
         /\ scanLog = <<>>
         /\ output = EmptyResults
    /\ \A f \in {"already-configured", "bogus"} : applyFilter(f, auditRes) = auditRes

\* an audit that filed one cluster under needs-removal and one under
\* ready-for-migration has output the ready-for-migration bucket alone
C15_Witness ==
  /\ cmd = "audit"
  /\ pc = "done"
  /\ runErr = NoErr
  /\ showOnly = ReadyForMigration
  /\ Len(auditRes.NeedsLabelRemoval) = 1
  /\ Len(auditRes.ReadyForMigration) = 1
  /\ auditRes.TotalScanned = 2
  /\ output.TotalScanned = 1
  /\ output.NeedsLabelRemoval = <<>>
  /\ output.ReadyForMigration = auditRes.ReadyForMigration

(***************************************************************************)
(* SpecNames: audits of management clusters whose two namespaces carry the *)
(* names of TestListOcmNamespaces and their neighbours.  Every namespace   *)
(* is either empty, so that scanning it would leave an error entry, or     *)
(* holds one HostedCluster, so that scanning it would classify a record.   *)
(***************************************************************************)
NsStagMixed == StrOcmDash \o StrStaging \o <<"-", "A", "B", "1", "x">>
NsProdSuffix == NsProdA \o <<"-", "x">>
NsProdBare == StrOcmDash \o StrProduction
NsStagNoID == StrOcmDash \o StrStaging \o <<"-">>
NsOtherEnv == StrOcmDash \o <<"o", "t", "h", "e", "r">> \o <<"-", "a", "1">>
NsUpperEnv == StrOcmDash \o <<"S", "t", "a", "g", "i", "n", "g">> \o <<"-", "a", "1">>
NsNoPrefix == StrProduction \o <<"-", "a", "1">>
NsLongPrefix == <<"x">> \o NsProdA
NsUnderscore == StrOcmDash \o StrStaging \o <<"-", "a", "_", "1">>

\* the names the pattern is written to keep, and those it is written to drop
NamesKept == {NsProdA, NsStagB, NsStagMixed}
NamesDropped ==
  {NsProdSuffix, NsProdBare, NsStagNoID, NsOtherEnv, NsUpperEnv, NsNoPrefix,
   NsLongPrefix, NsUnderscore, NsKube}

NamesItems(name, id) == {<<>>, <<HC("hc", id, MkMap(EmptyKV))>>}

NamesMgmts ==
  {<<[Name |-> n1, Items |-> i1], [Name |-> n2, Items |-> i2]>> :
     <<n1, n2, i1, i2>> \in
       {q \in (NamesKept \cup NamesDropped) \X (NamesKept \cup NamesDropped)
                \X NamesItems("", "c1") \X NamesItems("", "c2") : q[1] # q[2]}}

InitNames ==
  /\ cmd = "audit"
  /\ showOnly = ""
  /\ dryRun = FALSE
  /\ skipConfirmation = FALSE
  /\ mgmt \in NamesMgmts
  /\ svc = [id \in {} |-> <<>>]
  /\ clockStep = pollInterval
  /\ pc = "init"
  /\ InitRest

SpecNames == InitNames /\ [][NextAudit]_vars

NamesOf(items) == [i \in 1..Len(items) |-> items[i].Name]
IsKept(name) == name \in NamesKept
BucketNames(bucket) == {bucket[i].Namespace : i \in 1..Len(bucket)}
\* the namespaces that have left a trace in the results of the audit
TracedNames ==
  BucketNames(auditRes.NeedsLabelRemoval) \cup BucketNames(auditRes.ReadyForMigration)
    \cup BucketNames(auditRes.AlreadyConfigured) \cup BucketNames(auditRes.Errors)
    \cup BucketNames(scanLog)

\* C16: once the namespaces are listed, the namespaces to scan are exactly
\* the listed names of the form ocm-(production|staging)-<alphanumeric id>,
\* in the order of the list; a name with an extra hyphenated suffix, without
\* the ocm- prefix or with a longer one, with another environment word or
\* with no id is dropped, and a dropped name leaves neither a record nor an
\* error entry; at the end every kept name has left exactly one of the two.
C16_NamespaceFilterExact ==
  /\ nsIdx >= 1 => namespaces = SelectSeq(NamesOf(mgmt), IsKept)
  /\ TracedNames \subseteq NamesKept
  /\ TracedNames \subseteq {namespaces[i] : i \in 1..Len(namespaces)}
  /\ (pc = "done" /\ runErr = NoErr) =>
       /\ TracedNames = {n \in NamesKept : \E i \in 1..Len(mgmt) : mgmt[i].Name = n}
       /\ auditRes.TotalScanned + Len(auditRes.Errors) = Len(namespaces)

C16_Witness ==
  /\ pc = "done"
  /\ runErr = NoErr
  /\ NamesOf(mgmt) = <<NsProdSuffix, NsStagMixed>>
  /\ mgmt[1].Items = <<>>
  /\ namespaces = <<NsStagMixed>>
  /\ auditRes.Errors = <<>>
  /\ auditRes.TotalScanned = 1

\* the variables of the run itself: everything but the two stores
runVars ==
  <<optVars, pc, runErr, cancelled, scanVars, candidates, idx, results,
    waitVars, logVars, clockStep, svc0>>

\* the ManifestWorks of the service cluster that differ from their first content
Written == {id \in DOMAIN svc : svc[id] # svc0[id]}

\* a step of the run that updates one ManifestWork: the Update of
\* patchManifestWork for the candidate at hand has returned without an error
UpdateStep ==
  /\ cmd = "migrate"
  /\ pc = "migrate"
  /\ idx \in 1..Len(candidates)
  /\ Len(patchLog') = Len(patchLog) + 1
  /\ LET e == patchLog'[Len(patchLog')]
     IN /\ e.ClusterID = candidates[idx].ClusterID
        /\ e.got
        /\ e.updateCalled
        /\ e.err = NoErr
        /\ DOMAIN svc' = DOMAIN svc
        /\ \A id \in DOMAIN svc : id # e.ClusterID => svc'[id] = svc[id]

ErrCancelledByUser == <<"migration cancelled by user">>
\* nothing has been patched, updated or verified
Untouched ==
  /\ patchLog = <<>>
  /\ syncCalls = <<>>
  /\ syncLog = <<>>
  /\ results = <<>>
  /\ svc = svc0
  /\ lastFetch = NoFetch
\* the run is in migrateClusters
InMigrateClusters == pc \in {"migrate", "select", "fetch"}

\* C18: in the migrate command nothing is patched, updated or verified
\* while the run is before or at the prompt; a dry run never reaches the
\* prompt or the patch loop and leaves every ManifestWork untouched; the
\* prompt is shown only for a non-empty candidate list, without
\* --skip-confirmation and without --dry-run; a declined prompt ends the
\* run with "migration cancelled by user" and nothing touched; with no
\* candidate the run ends without a prompt and without a patch; and the
\* patch loop is entered either from an accepted prompt or, with
\* --skip-confirmation, straight from the scan.
C18_NoPatchBeforeConfirmation ==
  /\ [](cmd = "migrate" =>
          /\ pc \in {"init", "list", "scan", "confirm"} => Untouched
          /\ dryRun => (Untouched /\ pc # "confirm" /\ ~InMigrateClusters)
          /\ pc = "confirm" => (~skipConfirmation /\ ~dryRun /\ candidates # <<>>)
          /\ runErr = ErrCancelledByUser => (pc = "done" /\ Untouched)
          /\ candidates = <<>> => (Untouched /\ pc # "confirm" /\ ~InMigrateClusters)
          /\ ~Untouched => (~dryRun /\ candidates # <<>> /\ runErr = NoErr))
  /\ [][cmd = "migrate" =>
          /\ (pc = "confirm" /\ pc' = "done") => runErr' = ErrCancelledByUser
          /\ (pc = "confirm" /\ pc' # pc /\ pc' # "done") =>
               (pc' = "migrate" /\ runErr' = NoErr /\ Untouched')
          /\ (~InMigrateClusters /\ InMigrateClusters') =>
               /\ pc' = "migrate"
               /\ idx' = 1
               /\ IF skipConfirmation THEN pc \in {"list", "scan"} ELSE pc = "confirm"
          /\ (pc \in {"list", "scan"} /\ pc' = "confirm") => candidates' # <<>>
          /\ (pc \in {"list", "scan"} /\ pc' = "done" /\ runErr' = NoErr) =>
               (candidates' = <<>> \/ dryRun)]_vars

C18_Witness ==
  /\ cmd = "migrate"
  /\ pc = "done"
  /\ ~skipConfirmation
  /\ ~dryRun
  /\ Len(candidates) = 2
  /\ runErr = ErrCancelledByUser
  /\ Untouched
  /\ DOMAIN svc = {"c1", "c2"}

\* the errors with which the setup of a command can end
SetupErrors ==
  ({auditSetup(k, f, e) :
      k \in BOOLEAN, f \in ShowOnlyChoices, e \in LateSetupErrors}
   \cup {Errorf("initialization failed: %v", initialize(k, e)) :
           k \in BOOLEAN, e \in LateSetupErrors}) \ {NoErr}
\* no namespace has been listed or scanned
Unscanned ==
  /\ namespaces = <<>>
  /\ nsIdx = 0
  /\ scanLog = <<>>
  /\ auditRes = EmptyResults
  /\ output = EmptyResults
  /\ candidates = <<>>
  /\ idx = 0

\* C19: a run whose setup fails returns the setup error at once: the run is
\* over with that error, no namespace was listed or scanned, nothing was
\* patched or verified and every ManifestWork is as it was; the setup step
\* either ends the run with a setup error or goes on to the listing without
\* one, and a run that is over does nothing more.
C19_SetupErrorAborts ==
  /\ [](/\ runErr \in SetupErrors => (pc = "done" /\ Unscanned /\ Untouched)
        /\ pc \in {"list", "scan", "confirm", "migrate", "select", "fetch"} =>
             runErr = NoErr
        /\ ~(Unscanned /\ Untouched) => runErr \notin SetupErrors)
  /\ [][/\ pc = "init" /\ pc' # pc =>
             \/ pc' = "done" /\ runErr' \in SetupErrors
             \/ pc' = "list" /\ runErr' = NoErr
        /\ pc = "done" => UNCHANGED <<pc, runErr, scanVars, candidates, idx, results,
                                       svc, logVars>>]_vars

C19_Witness ==
  /\ cmd = "migrate"
  /\ pc = "done"
  /\ runErr = <<"initialization failed: %v", "cluster %s is not a management cluster", "mgmt">>
  /\ Unscanned
  /\ Untouched
  /\ DOMAIN svc = {"c1", "c2"}
  /\ \E i \in 1..Len(mgmt) : mgmt[i].Items # <<>> /\ ocmNamespacePattern(mgmt[i].Name)

\* C20: on the annotations of every record an audit has scanned (every map
\* over the override key, the two target keys and another key, with exact,
\* empty and differently cased values, and the nil map), the verifier's
\* hasRequiredAnnotations is true exactly when rule 2 holds of the map:
\* topology is dedicated-request-serving-components and
\* resource-based-cp-auto-scaling is true; so for a record without the
\* override key it is true exactly when the scan classified the record
\* already-configured, and a record it accepts is never ready-for-migration.
C20_VerifierEqualsRuleTwo ==
  \A info \in Classified \cup InBucket(scanLog) :
    /\ hasRequiredAnnotations(info.Annotations) <=> BothExact(info.Annotations)
    /\ info.Annotations.nil => ~hasRequiredAnnotations(info.Annotations)
    /\ ~CarriesOverride(info.Annotations) =>
         (hasRequiredAnnotations(info.Annotations)
            <=> info.Category = AlreadyConfigured)
    /\ hasRequiredAnnotations(info.Annotations) => info.Category # ReadyForMigration
    /\ info.Category = AlreadyConfigured => hasRequiredAnnotations(info.Annotations)

\* an audit has filed a record with both target annotations and another
\* annotation under already-configured, and the verifier accepts it
C20_Witness ==
  /\ AuditScanned
  /\ \E info \in InBucket(auditRes.AlreadyConfigured) :
       /\ info.Annotations = MkMap(BothAnnotations @@ (KeyOther :> "True"))
       /\ hasRequiredAnnotations(info.Annotations)

\* how many of the first k patches of the run succeeded: the position, in
\* the log of the verifications, of the verification that followed patch k
RECURSIVE PatchedUpTo(_)
PatchedUpTo(k) ==
  IF k = 0 THEN 0
  ELSE PatchedUpTo(k - 1) + (IF patchLog[k].err = NoErr THEN 1 ELSE 0)

\* the outcome of patch and verification of the k-th candidate was success
PatchedAndVerified(k) ==
  /\ patchLog[k].err = NoErr
  /\ PatchedUpTo(k) <= Len(syncLog)
  /\ syncLog[PatchedUpTo(k)].ClusterID = candidates[k].ClusterID
  /\ syncLog[PatchedUpTo(k)].err = NoErr

\* C21: the k-th migration result is that of the k-th candidate; its status
\* is success or failed, and it is success exactly when the patch of the
\* candidate returned no error and the verification that followed returned
\* no error; a success carries the completion timestamp and no error; a
\* failed result carries no timestamp and the error of the patch ("failed
\* to patch ManifestWork: ...") or of the verification ("sync verification
\* failed: ..." with a timeout or the cancellation).
C21_ResultStatus ==
  /\ Len(results) <= Len(patchLog)
  /\ \A k \in 1..Len(results) :
       LET r == results[k]
       IN /\ r.ClusterID = candidates[k].ClusterID
          /\ r.ClusterID = patchLog[k].ClusterID
          /\ r.Status \in {"success", "failed"}
          /\ r.Status = "success" <=> PatchedAndVerified(k)
          /\ r.Status = "success" => (r.VerifiedAt = TimeRFC3339 /\ r.Error = NoErr)
          /\ r.Status = "failed" =>
               /\ r.VerifiedAt = ""
               /\ r.Error # NoErr
               /\ Len(r.Error) >= 2
               /\ IF patchLog[k].err # NoErr
                  THEN r.Error = <<"failed to patch ManifestWork: %v">> \o patchLog[k].err
                  ELSE /\ r.Error = <<"sync verification failed: %v">>
                                      \o syncLog[PatchedUpTo(k)].err
                       /\ syncLog[PatchedUpTo(k)].err \in TimeoutErrs \cup {ErrContextCancelled}

\* a run of two candidates has ended with a success and a timeout
C21_Witness ==
  /\ pc = "done"
  /\ Len(results) = 2
  /\ results[1].Status = "success"
  /\ results[1].VerifiedAt = TimeRFC3339
  /\ results[2].Status = "failed"
  /\ results[2].VerifiedAt = ""
  /\ results[2].Error = <<"sync verification failed: %v">> \o ErrTimeoutNotSynced

\* the step in which the fetch of a tick returns and the tick is evaluated
FetchReturns == pc = "fetch" /\ pc' # "fetch"
\* the elements of an error message
Fragments(err) == {err[i] : i \in 1..Len(err)}

\* C22: a fetch of waitForSync that fails never ends the call by itself.
\* When it returns with the deadline not yet passed, the call goes back to
\* its select and waits for the next tick: nothing is returned and no
\* result is recorded.  When it returns after the deadline the call returns
\* "timeout waiting for sync after 5m0s" and the candidate fails with that
\* timeout.  What a call returns, and what a result shows, is never the
\* error of the fetch.
C22_FetchFailureIsNotYetSatisfied ==
  /\ [](/\ \A k \in 1..Len(syncLog) :
             /\ syncLog[k].err \in {NoErr, ErrContextCancelled} \cup TimeoutErrs
             /\ Fragments(syncLog[k].err) \cap Fragments(ErrClient) = {}
        /\ \A k \in 1..Len(results) :
             results[k].Error # NoErr /\ results[k].Error[1] = "sync verification failed: %v"
               => Fragments(results[k].Error) \cap Fragments(ErrClient) = {})
  /\ [][(FetchReturns /\ ~lastFetch'.ok) =>
          IF now <= deadline
          THEN /\ pc' = "select"
               /\ UNCHANGED <<syncLog, results, idx, attempt, deadline, nextTick>>
          ELSE /\ syncLog' = Append(syncLog, [ClusterID |-> candidates[idx].ClusterID,
                                              err |-> ErrTimeoutFetch])
               /\ Len(results') = Len(results) + 1
               /\ results'[Len(results')].Status = "failed"
               /\ results'[Len(results')].Error =
                    <<"sync verification failed: %v">> \o ErrTimeoutFetch]_vars

\* the first fetch of a call failed well before the deadline, the call went
\* on, and its second fetch has been started
C22_Witness ==
  /\ pc = "fetch"
  /\ attempt = 2
  /\ lastFetch.n = 1
  /\ ~lastFetch.ok
  /\ ~lastFetch.late
  /\ now < deadline
  /\ syncLog = <<>>
  /\ results = <<>>

Returns(err) ==
  /\ syncLog' = Append(syncLog, [ClusterID |-> candidates[idx].ClusterID, err |-> err])
  /\ pc' \notin {"select", "fetch"} \/ idx' = idx + 1

C24_PatchOncePerCandidate ==
  /\ [](/\ Len(patchLog) <= Len(candidates)
        /\ Len(results) <= Len(patchLog)
        /\ Len(patchLog) <= Len(results) + 1
        /\ \A k \in 1..Len(patchLog) :
             /\ patchLog[k].ClusterID = candidates[k].ClusterID
             /\ patchLog[k].updateCalled => patchLog[k].got
             /\ \A j \in 1..Len(patchLog) :
                  patchLog[j].ClusterID = patchLog[k].ClusterID => j = k
        /\ Len(syncCalls) = PatchedUpTo(Len(patchLog))
        /\ \A c \in 1..Len(syncCalls) :
             \A d \in 1..Len(syncCalls) : syncCalls[c] = syncCalls[d] => c = d
        /\ Len(syncLog) <= Len(syncCalls))
  /\ [][/\ patchLog' # patchLog =>
             /\ Len(patchLog') = Len(patchLog) + 1
             /\ SubSeq(patchLog', 1, Len(patchLog)) = patchLog
             /\ Len(results) = Len(patchLog)
             /\ idx = Len(patchLog) + 1
             /\ patchLog'[idx].ClusterID = candidates[idx].ClusterID
        /\ results' # results =>
             /\ Len(results') = Len(results) + 1
             /\ idx' = idx + 1
             /\ pc' \in {"migrate", "done"}
        /\ (pc \in {"select", "fetch"} /\ pc' \in {"select", "fetch"}) =>
             UNCHANGED <<patchLog, syncCalls, svc, idx>>]_vars

\* the patch of the first candidate failed and that of the second was
\* followed by a verification of several fetches that failed as well: the
\* run has ended with two patches
C24_Witness ==
  /\ pc = "done"
  /\ Len(candidates) = 2
  /\ Len(patchLog) = 2
  /\ patchLog[1].err # NoErr
  /\ patchLog[2].err = NoErr
  /\ results[1].Status = "failed"
  /\ results[2].Status = "failed"
  /\ attempt >= 2
  /\ Len(syncCalls) = 1

(***************************************************************************)
(* waitForSync alone, with its scheduling: the run stands before the       *)
(* migration of its one candidate, whose ManifestWork can be patched; the  *)
(* clock advances FineStep seconds a step.  Time passes and the ticker     *)
(* fires (AdvanceTime), a select with a ready case takes one (SelectTick,   *)
(* SelectDone), and a fetch returns (FetchReturn).                         *)
(***************************************************************************)
WaitCandidate(annotations) ==
  auditNamespace(TRUE, <<HC("hc-a", "c1", annotations)>>, NsProdA).info

InitWait ==
  /\ cmd = "migrate"
  /\ showOnly = ""
  /\ dryRun = FALSE
  /\ skipConfirmation = TRUE
  /\ mgmt \in {<<[Name |-> NsProdA, Items |-> <<HC("hc-a", "c1", a)>>]>> :
                 a \in {NilMap, MkMap(KeyAutoScaling :> ValTrue)}}
  /\ svc \in {"c1" :> l : l \in {<<NilRaw, HCOldRaw>>, <<HCBareRaw>>}}
  /\ svc0 = svc
  /\ clockStep = FineStep
  /\ pc = "migrate"
  /\ runErr = NoErr
  /\ cancelled = FALSE
  /\ namespaces = <<NsProdA>>
  /\ nsIdx = 2
  /\ auditRes = EmptyResults
  /\ output = EmptyResults
  /\ candidates = <<WaitCandidate(mgmt[1].Items[1].Annotations)>>
  /\ idx = 1
  /\ results = <<>>
  /\ now = 0
  /\ deadline = 0
  /\ nextTick = 0
  /\ tickPending = FALSE
  /\ attempt = 0
  /\ fetchStart = 0
  /\ raced = FALSE
  /\ lastFetch = NoFetch
  /\ scanLog = candidates
  /\ patchLog = <<>>
  /\ syncCalls = <<>>
  /\ syncLog = <<>>

NextWait ==
  \/ MigratePatch
  \/ SelectTick
  \/ SelectDone
  \/ FetchReturn
  \/ AdvanceTime
  \/ Cancel
  \/ Propagate

SpecWait ==
  /\ InitWait
  /\ [][NextWait]_vars
  /\ WF_vars(AdvanceTime)
  /\ WF_vars(SelectTick)
  /\ WF_vars(SelectDone)
  /\ WF_vars(FetchReturn)

\* the most fetches a call of waitForSync can make
MaxAttempts == (timeout \div pollInterval) + 1

\* C25: when time passes, ticks fire and every fetch returns, a call of
\* waitForSync that has started returns, also when the record never becomes
\* satisfied and the context is never cancelled; what it returns is success,
\* one of the two timeouts or the cancellation; and it makes at most
\* timeout / pollInterval + 1 = 21 fetches.
C25_WaitForSyncTerminates ==
  /\ WaitRunning ~> (~WaitRunning /\ Len(syncLog) = Len(syncCalls))
  /\ [](/\ attempt <= MaxAttempts
        /\ MaxAttempts = 21
        /\ lastFetch.n <= attempt
        /\ \A k \in 1..Len(syncLog) :
             syncLog[k].err \in {NoErr, ErrContextCancelled} \cup TimeoutErrs
        /\ ~WaitRunning => Len(syncLog) = Len(syncCalls))

\* a call in which the context was never cancelled and the record never
\* satisfied has ended in a timeout with its 21st fetch
C25_Witness ==
  /\ pc = "done"
  /\ ~cancelled
  /\ attempt = 21
  /\ lastFetch.n = 21
  /\ ~FetchSatisfied
  /\ syncLog # <<>>
  /\ LastErr \in TimeoutErrs

\* the record of the candidate at hand in the management cluster
PrimaryAnnotations ==
  getHostedClusterFromMgmt(mgmt, TRUE, candidates[idx].Namespace,
                           candidates[idx].ClusterName).Annotations
\* the running call of waitForSync returns success in this step
ReturnsSuccess ==
  /\ Len(syncLog') = Len(syncLog) + 1
  /\ syncLog'[Len(syncLog')].err = NoErr

\* C26: a call of waitForSync returns success only in the step in which one
\* of its own fetches returns without an error a record of the management
\* cluster whose topology is dedicated-request-serving-components and whose
\* resource-based-cp-auto-scaling is true; a failed fetch, a record with a
\* nil annotation map or with one of the two values only, and the
\* cancellation never give success, and a result is success only after
\* such a fetch.
C26_NoFalseSuccess ==
  /\ []((~WaitRunning /\ syncLog # <<>> /\ LastErr = NoErr) =>
          /\ attempt >= 1
          /\ lastFetch.n = attempt
          /\ lastFetch.ok
          /\ ~lastFetch.ann.nil
          /\ BothExact(lastFetch.ann))
  /\ [](\A k \in 1..Len(results) :
          results[k].Status = "success" =>
            /\ lastFetch.ok
            /\ BothExact(lastFetch.ann)
            /\ syncLog # <<>>
            /\ LastErr = NoErr)
  /\ [][ReturnsSuccess =>
          /\ FetchReturns
          /\ attempt >= 1
          /\ lastFetch'.n = attempt
          /\ lastFetch'.ok
          /\ lastFetch'.ann = PrimaryAnnotations
          /\ BothExact(PrimaryAnnotations)]_vars
  /\ [][(FetchReturns /\ (\/ ~lastFetch'.ok
                          \/ lastFetch'.ann.nil
                          \/ ~BothExact(lastFetch'.ann))) => ~ReturnsSuccess]_vars

\* the third or a later fetch of a call, after fetches that did not end
\* it, has found both values in the record that the patched ManifestWork
\* propagated, and the call has returned success
C26_Witness ==
  /\ pc = "done"
  /\ syncLog # <<>>
  /\ LastErr = NoErr
  /\ attempt >= 3
  /\ FetchSatisfied
  /\ svc0["c1"] = <<HCBareRaw>>
  /\ results[1].Status = "success"

\* the three buckets of the audit results, one after the other
Buckets ==
  auditRes.NeedsLabelRemoval \o auditRes.ReadyForMigration \o auditRes.AlreadyConfigured
\* the entries of the buckets, and of buckets and error list, for a namespace
BucketEntriesOf(ns) == {b \in 1..Len(Buckets) : Buckets[b].Namespace = ns}
Accounted(ns) == Cardinality(BucketEntriesOf(ns)) + Cardinality(ErrorsOf(ns))
\* the namespaces of the store whose name passes the filter
Matching == {i \in 1..Len(mgmt) : ocmNamespacePattern(mgmt[i].Name)}

\* C27: in an audit every namespace that passed the name filter and that the
\* scan has gone through has exactly one entry, in one of the three buckets
\* or in the error list, and a namespace not yet gone through has none; no
\* entry belongs to another namespace, a bucket entry lies in the bucket of
\* its category and no two bucket entries are of the same cluster; so when
\* the audit returns, total_scanned plus the number of errors is the number
\* of matching namespaces.
C27_EachNamespaceAccountedOnce ==
  cmd = "audit" =>
    /\ \A i \in 1..Len(namespaces) :
         /\ Accounted(namespaces[i]) = IF i <= Processed THEN 1 ELSE 0
         /\ \A j \in 1..Len(namespaces) : namespaces[j] = namespaces[i] => j = i
    /\ Len(Buckets) + Len(auditRes.Errors) = Processed
    /\ \A b \in 1..Len(Buckets) :
         /\ \E i \in 1..Processed : namespaces[i] = Buckets[b].Namespace
         /\ \A c \in 1..Len(Buckets) : Buckets[c].ClusterID = Buckets[b].ClusterID => c = b
         /\ Buckets[b].Category =
              IF b <= Len(auditRes.NeedsLabelRemoval) THEN NeedsRemoval
              ELSE IF b <= Len(auditRes.NeedsLabelRemoval) + Len(auditRes.ReadyForMigration)
              THEN ReadyForMigration
              ELSE AlreadyConfigured
    /\ \A e \in 1..Len(auditRes.Errors) :
         \E i \in 1..Processed : namespaces[i] = auditRes.Errors[e].Namespace
    /\ AuditReturned =>
         /\ Processed = Len(namespaces)
         /\ Len(namespaces) = Cardinality(Matching)
         /\ auditRes.TotalScanned + Len(auditRes.Errors) = Cardinality(Matching)
         /\ auditRes.TotalScanned = Len(Buckets)

\* an audit of two matching namespaces and one that does not match has
\* returned with one record under needs-removal and one under
\* already-configured
C27_Witness ==
  /\ AuditReturned
  /\ showOnly = ""
  /\ Len(mgmt) = 3
  /\ Cardinality(Matching) = 2
  /\ Len(auditRes.NeedsLabelRemoval) = 1
  /\ Len(auditRes.AlreadyConfigured) = 1
  /\ auditRes.Errors = <<>>
  /\ auditRes.TotalScanned = 2

=============================================================================
